---------------------------- MODULE Spec2Model ----------------------------
(***************************************************************************)
(* A model of freedesktop-rs: the nom grammar of src/parser/mod.rs, the    *)
(* data model, lookups and Display implementations of                      *)
(* src/parser/models.rs.                                                   *)
(*                                                                         *)
(* Text is a sequence of bytes (0..255), as the parser's input is &[u8];   *)
(* a Rust String is the sequence of its UTF-8 bytes.                       *)
(***************************************************************************)
EXTENDS Integers, Sequences, FiniteSets, TLC

VARIABLES
    input,      \* the bytes (or the value) handed to the operation under study
    pc,         \* the position of the run: "start", then the operation's name
    doc,        \* the DesktopFile / Group / entry the run works on
    parsed,     \* the IResult of the parser that ran
    out,        \* the text written by Display
    query,      \* the arguments of the last lookup
    found       \* the result of the last lookup

vars == <<input, pc, doc, parsed, out, query, found>>

(***************************************************************************)
(* Bytes.                                                                  *)
(***************************************************************************)
TAB == 9
LF == 10
CR == 13
SP == 32
HASH == 35
DASH == 45
SEMI == 59
EQ == 61
LBRACKET == 91
BSLASH == 92
RBRACKET == 93

Byte == 0..255

\* u8::is_ascii / char::is_ascii
IsAscii(c) == c < 128

\* (c as char).is_alphanumeric(): AsChar for u8 casts the byte to the char of
\* the same code point, so the Latin-1 letters and numerics count too.
IsAlphanumeric(c) ==
    \/ c \in 48..57 \/ c \in 65..90 \/ c \in 97..122
    \/ c \in {170, 178, 179, 181, 185, 186, 188, 189, 190}
    \/ c \in 192..214 \/ c \in 216..246 \/ c \in 248..255

\* nom's space0 / space1: space and tab
IsSpace(c) == c = SP \/ c = TAB

\* nom's multispace0 / multispace1: space, tab, carriage return, line feed
IsMultispace(c) == c = SP \/ c = TAB \/ c = CR \/ c = LF

(***************************************************************************)
(* Sequence helpers.                                                       *)
(***************************************************************************)
Drop(s, n) == SubSeq(s, n + 1, Len(s))

Take(s, n) == SubSeq(s, 1, n)

\* the length of the longest prefix of s whose bytes all lie in S
PrefixLen(S, s) ==
    IF \A i \in 1..Len(s) : s[i] \in S
    THEN Len(s)
    ELSE (CHOOSE i \in 1..Len(s) :
              s[i] \notin S /\ \A j \in 1..(i - 1) : s[j] \in S) - 1

IsPrefix(p, s) == Len(p) <= Len(s) /\ Take(s, Len(p)) = p

IsSuffix(p, s) == Len(p) <= Len(s) /\ Drop(s, Len(s) - Len(p)) = p

RECURSIVE Concat(_)
Concat(ss) == IF ss = <<>> THEN <<>> ELSE Head(ss) \o Concat(Tail(ss))

(***************************************************************************)
(* std: str::from_utf8, str::trim, str::to_uppercase.                      *)
(***************************************************************************)
IsCont(c) == c \in 128..191

\* the byte length of the well-formed UTF-8 scalar value s starts with, 0 if none
Utf8CharLen(s) ==
    IF s = <<>> THEN 0
    ELSE LET b == s[1]
             c2 == IF Len(s) >= 2 THEN s[2] ELSE 0
             c3 == IF Len(s) >= 3 THEN s[3] ELSE 0
             c4 == IF Len(s) >= 4 THEN s[4] ELSE 0
         IN  IF b < 128 THEN 1
             ELSE IF b \in 194..223 /\ IsCont(c2) THEN 2
             ELSE IF b = 224 /\ c2 \in 160..191 /\ IsCont(c3) THEN 3
             ELSE IF b \in (225..236) \cup {238, 239} /\ IsCont(c2) /\ IsCont(c3) THEN 3
             ELSE IF b = 237 /\ c2 \in 128..159 /\ IsCont(c3) THEN 3
             ELSE IF b = 240 /\ c2 \in 144..191 /\ IsCont(c3) /\ IsCont(c4) THEN 4
             ELSE IF b \in 241..243 /\ IsCont(c2) /\ IsCont(c3) /\ IsCont(c4) THEN 4
             ELSE IF b = 244 /\ c2 \in 128..143 /\ IsCont(c3) /\ IsCont(c4) THEN 4
             ELSE 0

RECURSIVE FromUtf8Ok(_)
FromUtf8Ok(s) ==
    IF s = <<>> THEN TRUE
    ELSE LET n == Utf8CharLen(s)
         IN  n > 0 /\ FromUtf8Ok(Drop(s, n))

\* the UTF-8 encodings of the characters with the White_Space property
WhiteSpace ==
    {<<9>>, <<10>>, <<11>>, <<12>>, <<13>>, <<32>>,
     <<194, 133>>, <<194, 160>>, <<225, 154, 128>>,
     <<226, 128, 168>>, <<226, 128, 169>>, <<226, 128, 175>>,
     <<226, 129, 159>>, <<227, 128, 128>>}
    \cup {<<226, 128, b>> : b \in 128..138}

RECURSIVE TrimStart(_)
TrimStart(s) ==
    IF \E w \in WhiteSpace : IsPrefix(w, s)
    THEN TrimStart(Drop(s, Len(CHOOSE w \in WhiteSpace : IsPrefix(w, s))))
    ELSE s

RECURSIVE TrimEnd(_)
TrimEnd(s) ==
    IF \E w \in WhiteSpace : IsSuffix(w, s)
    THEN TrimEnd(Take(s, Len(s) - Len(CHOOSE w \in WhiteSpace : IsSuffix(w, s))))
    ELSE s

\* str::trim, on well-formed UTF-8
Trim(s) == TrimEnd(TrimStart(s))

\* the scalar value of the UTF-8 bytes s of one character
Scalar(s) ==
    IF Len(s) = 1 THEN s[1]
    ELSE IF Len(s) = 2 THEN (s[1] - 192) * 64 + (s[2] - 128)
    ELSE IF Len(s) = 3 THEN (s[1] - 224) * 4096 + (s[2] - 128) * 64 + (s[3] - 128)
    ELSE (s[1] - 240) * 262144 + (s[2] - 128) * 4096 + (s[3] - 128) * 64 + (s[4] - 128)

\* char::to_uppercase of the characters above U+007F with one upper-case
\* character: <<first, last, step, offset>> stands for the characters first,
\* first + step, .. last, each mapped to itself + offset (UnicodeData.txt of
\* Unicode 14.0 and, in the last three lines, the case pairs added up to the
\* Unicode version of the std of rustc 1.95.0)
UppercaseRuns ==
    {
 <<181, 181, 1, 743>>, <<224, 246, 1, -32>>, <<248, 254, 1, -32>>,
     <<255, 255, 1, 121>>, <<257, 303, 2, -1>>, <<305, 305, 1, -232>>,
     <<307, 311, 2, -1>>, <<314, 328, 2, -1>>, <<331, 375, 2, -1>>,
     <<378, 382, 2, -1>>, <<383, 383, 1, -300>>, <<384, 384, 1, 195>>,
     <<387, 389, 2, -1>>, <<392, 392, 1, -1>>, <<396, 396, 1, -1>>,
     <<402, 402, 1, -1>>, <<405, 405, 1, 97>>, <<409, 409, 1, -1>>,
     <<410, 410, 1, 163>>, <<414, 414, 1, 130>>, <<417, 421, 2, -1>>,
     <<424, 424, 1, -1>>, <<429, 429, 1, -1>>, <<432, 432, 1, -1>>,
     <<436, 438, 2, -1>>, <<441, 441, 1, -1>>, <<445, 445, 1, -1>>,
     <<447, 447, 1, 56>>, <<453, 453, 1, -1>>, <<454, 454, 1, -2>>,
     <<456, 456, 1, -1>>, <<457, 457, 1, -2>>, <<459, 459, 1, -1>>,
     <<460, 460, 1, -2>>, <<462, 476, 2, -1>>, <<477, 477, 1, -79>>,
     <<479, 495, 2, -1>>, <<498, 498, 1, -1>>, <<499, 499, 1, -2>>,
     <<501, 501, 1, -1>>, <<505, 543, 2, -1>>, <<547, 563, 2, -1>>,
     <<572, 572, 1, -1>>, <<575, 576, 1, 10815>>, <<578, 578, 1, -1>>,
     <<583, 591, 2, -1>>, <<592, 592, 1, 10783>>, <<593, 593, 1, 10780>>,
     <<594, 594, 1, 10782>>, <<595, 595, 1, -210>>, <<596, 596, 1, -206>>,
     <<598, 599, 1, -205>>, <<601, 601, 1, -202>>, <<603, 603, 1, -203>>,
     <<604, 604, 1, 42319>>, <<608, 608, 1, -205>>, <<609, 609, 1, 42315>>,
     <<611, 611, 1, -207>>, <<613, 613, 1, 42280>>, <<614, 614, 1, 42308>>,
     <<616, 616, 1, -209>>, <<617, 617, 1, -211>>, <<618, 618, 1, 42308>>,
     <<619, 619, 1, 10743>>, <<620, 620, 1, 42305>>, <<623, 623, 1, -211>>,
     <<625, 625, 1, 10749>>, <<626, 626, 1, -213>>, <<629, 629, 1, -214>>,
     <<637, 637, 1, 10727>>, <<640, 640, 1, -218>>, <<642, 642, 1, 42307>>,
     <<643, 643, 1, -218>>, <<647, 647, 1, 42282>>, <<648, 648, 1, -218>>,
     <<649, 649, 1, -69>>, <<650, 651, 1, -217>>, <<652, 652, 1, -71>>,
     <<658, 658, 1, -219>>, <<669, 669, 1, 42261>>, <<670, 670, 1, 42258>>,
     <<837, 837, 1, 84>>, <<881, 883, 2, -1>>, <<887, 887, 1, -1>>,
     <<891, 893, 1, 130>>, <<940, 940, 1, -38>>, <<941, 943, 1, -37>>,
     <<945, 961, 1, -32>>, <<962, 962, 1, -31>>, <<963, 971, 1, -32>>,
     <<972, 972, 1, -64>>, <<973, 974, 1, -63>>, <<976, 976, 1, -62>>,
     <<977, 977, 1, -57>>, <<981, 981, 1, -47>>, <<982, 982, 1, -54>>,
     <<983, 983, 1, -8>>, <<985, 1007, 2, -1>>, <<1008, 1008, 1, -86>>,
     <<1009, 1009, 1, -80>>, <<1010, 1010, 1, 7>>, <<1011, 1011, 1, -116>>,
     <<1013, 1013, 1, -96>>, <<1016, 1016, 1, -1>>, <<1019, 1019, 1, -1>>,
     <<1072, 1103, 1, -32>>, <<1104, 1119, 1, -80>>, <<1121, 1153, 2, -1>>,
     <<1163, 1215, 2, -1>>, <<1218, 1230, 2, -1>>, <<1231, 1231, 1, -15>>,
     <<1233, 1327, 2, -1>>, <<1377, 1414, 1, -48>>, <<4304, 4346, 1, 3008>>,
     <<4349, 4351, 1, 3008>>, <<5112, 5117, 1, -8>>, <<7296, 7296, 1, -6254>>,
     <<7297, 7297, 1, -6253>>, <<7298, 7298, 1, -6244>>, <<7299, 7300, 1, -6242>>,
     <<7301, 7301, 1, -6243>>, <<7302, 7302, 1, -6236>>, <<7303, 7303, 1, -6181>>,
     <<7304, 7304, 1, 35266>>, <<7545, 7545, 1, 35332>>, <<7549, 7549, 1, 3814>>,
     <<7566, 7566, 1, 35384>>, <<7681, 7829, 2, -1>>, <<7835, 7835, 1, -59>>,
     <<7841, 7935, 2, -1>>, <<7936, 7943, 1, 8>>, <<7952, 7957, 1, 8>>,
     <<7968, 7975, 1, 8>>, <<7984, 7991, 1, 8>>, <<8000, 8005, 1, 8>>,
     <<8017, 8023, 2, 8>>, <<8032, 8039, 1, 8>>, <<8048, 8049, 1, 74>>,
     <<8050, 8053, 1, 86>>, <<8054, 8055, 1, 100>>, <<8056, 8057, 1, 128>>,
     <<8058, 8059, 1, 112>>, <<8060, 8061, 1, 126>>, <<8112, 8113, 1, 8>>,
     <<8126, 8126, 1, -7205>>, <<8144, 8145, 1, 8>>, <<8160, 8161, 1, 8>>,
     <<8165, 8165, 1, 7>>, <<8526, 8526, 1, -28>>, <<8560, 8575, 1, -16>>,
     <<8580, 8580, 1, -1>>, <<9424, 9449, 1, -26>>, <<11312, 11359, 1, -48>>,
     <<11361, 11361, 1, -1>>, <<11365, 11365, 1, -10795>>, <<11366, 11366, 1, -10792>>,
     <<11368, 11372, 2, -1>>, <<11379, 11379, 1, -1>>, <<11382, 11382, 1, -1>>,
     <<11393, 11491, 2, -1>>, <<11500, 11502, 2, -1>>, <<11507, 11507, 1, -1>>,
     <<11520, 11557, 1, -7264>>, <<11559, 11559, 1, -7264>>, <<11565, 11565, 1, -7264>>,
     <<42561, 42605, 2, -1>>, <<42625, 42651, 2, -1>>, <<42787, 42799, 2, -1>>,
     <<42803, 42863, 2, -1>>, <<42874, 42876, 2, -1>>, <<42879, 42887, 2, -1>>,
     <<42892, 42892, 1, -1>>, <<42897, 42899, 2, -1>>, <<42900, 42900, 1, 48>>,
     <<42903, 42921, 2, -1>>, <<42933, 42947, 2, -1>>, <<42952, 42954, 2, -1>>,
     <<42961, 42961, 1, -1>>, <<42967, 42969, 2, -1>>, <<42998, 42998, 1, -1>>,
     <<43859, 43859, 1, -928>>, <<43888, 43967, 1, -38864>>, <<65345, 65370, 1, -32>>,
     <<66600, 66639, 1, -40>>, <<66776, 66811, 1, -40>>, <<66967, 66977, 1, -39>>,
     <<66979, 66993, 1, -39>>, <<66995, 67001, 1, -39>>, <<67003, 67004, 1, -39>>,
     <<68800, 68850, 1, -64>>, <<71872, 71903, 1, -32>>, <<93792, 93823, 1, -32>>,
     <<125218, 125251, 1, -34>>,
     <<411, 411, 1, 42561>>, <<612, 612, 1, 42343>>, <<7306, 7306, 1, -1>>,
     <<42957, 42959, 2, -1>>, <<42963, 42965, 2, -1>>, <<42971, 42971, 1, -1>>,
     <<68976, 68997, 1, -32>>, <<93883, 93907, 1, -27>>}

\* char::to_uppercase of the characters with several upper-case characters
\* (SpecialCasing.txt): <<character, its upper case>>
UppercaseSpecial ==
    {
 <<223, <<83, 83>>>>, <<329, <<700, 78>>>>, <<496, <<74, 780>>>>,
     <<912, <<921, 776, 769>>>>, <<944, <<933, 776, 769>>>>, <<1415, <<1333, 1362>>>>,
     <<7830, <<72, 817>>>>, <<7831, <<84, 776>>>>, <<7832, <<87, 778>>>>,
     <<7833, <<89, 778>>>>, <<7834, <<65, 702>>>>, <<8016, <<933, 787>>>>,
     <<8018, <<933, 787, 768>>>>, <<8020, <<933, 787, 769>>>>, <<8022, <<933, 787, 834>>>>,
     <<8064, <<7944, 921>>>>, <<8065, <<7945, 921>>>>, <<8066, <<7946, 921>>>>,
     <<8067, <<7947, 921>>>>, <<8068, <<7948, 921>>>>, <<8069, <<7949, 921>>>>,
     <<8070, <<7950, 921>>>>, <<8071, <<7951, 921>>>>, <<8072, <<7944, 921>>>>,
     <<8073, <<7945, 921>>>>, <<8074, <<7946, 921>>>>, <<8075, <<7947, 921>>>>,
     <<8076, <<7948, 921>>>>, <<8077, <<7949, 921>>>>, <<8078, <<7950, 921>>>>,
     <<8079, <<7951, 921>>>>, <<8080, <<7976, 921>>>>, <<8081, <<7977, 921>>>>,
     <<8082, <<7978, 921>>>>, <<8083, <<7979, 921>>>>, <<8084, <<7980, 921>>>>,
     <<8085, <<7981, 921>>>>, <<8086, <<7982, 921>>>>, <<8087, <<7983, 921>>>>,
     <<8088, <<7976, 921>>>>, <<8089, <<7977, 921>>>>, <<8090, <<7978, 921>>>>,
     <<8091, <<7979, 921>>>>, <<8092, <<7980, 921>>>>, <<8093, <<7981, 921>>>>,
     <<8094, <<7982, 921>>>>, <<8095, <<7983, 921>>>>, <<8096, <<8040, 921>>>>,
     <<8097, <<8041, 921>>>>, <<8098, <<8042, 921>>>>, <<8099, <<8043, 921>>>>,
     <<8100, <<8044, 921>>>>, <<8101, <<8045, 921>>>>, <<8102, <<8046, 921>>>>,
     <<8103, <<8047, 921>>>>, <<8104, <<8040, 921>>>>, <<8105, <<8041, 921>>>>,
     <<8106, <<8042, 921>>>>, <<8107, <<8043, 921>>>>, <<8108, <<8044, 921>>>>,
     <<8109, <<8045, 921>>>>, <<8110, <<8046, 921>>>>, <<8111, <<8047, 921>>>>,
     <<8114, <<8122, 921>>>>, <<8115, <<913, 921>>>>, <<8116, <<902, 921>>>>,
     <<8118, <<913, 834>>>>, <<8119, <<913, 834, 921>>>>, <<8124, <<913, 921>>>>,
     <<8130, <<8138, 921>>>>, <<8131, <<919, 921>>>>, <<8132, <<905, 921>>>>,
     <<8134, <<919, 834>>>>, <<8135, <<919, 834, 921>>>>, <<8140, <<919, 921>>>>,
     <<8146, <<921, 776, 768>>>>, <<8147, <<921, 776, 769>>>>, <<8150, <<921, 834>>>>,
     <<8151, <<921, 776, 834>>>>, <<8162, <<933, 776, 768>>>>, <<8163, <<933, 776, 769>>>>,
     <<8164, <<929, 787>>>>, <<8166, <<933, 834>>>>, <<8167, <<933, 776, 834>>>>,
     <<8178, <<8186, 921>>>>, <<8179, <<937, 921>>>>, <<8180, <<911, 921>>>>,
     <<8182, <<937, 834>>>>, <<8183, <<937, 834, 921>>>>, <<8188, <<937, 921>>>>,
     <<64256, <<70, 70>>>>, <<64257, <<70, 73>>>>, <<64258, <<70, 76>>>>,
     <<64259, <<70, 70, 73>>>>, <<64260, <<70, 70, 76>>>>, <<64261, <<83, 84>>>>,
     <<64262, <<83, 84>>>>, <<64275, <<1348, 1350>>>>, <<64276, <<1348, 1333>>>>,
     <<64277, <<1348, 1339>>>>, <<64278, <<1358, 1350>>>>, <<64279, <<1348, 1341>>>>}

\* char::to_uppercase: the characters that char c gives
to_upper(c) ==
    IF c < 128 THEN (IF c \in 97..122 THEN <<c - 32>> ELSE <<c>>)
    ELSE IF \E p \in UppercaseSpecial : p[1] = c
    THEN (CHOOSE p \in UppercaseSpecial : p[1] = c)[2]
    ELSE IF \E r \in UppercaseRuns : c \in r[1]..r[2] /\ (c - r[1]) % r[3] = 0
    THEN <<c + (CHOOSE r \in UppercaseRuns :
                   c \in r[1]..r[2] /\ (c - r[1]) % r[3] = 0)[4]>>
    ELSE <<c>>

\* the UTF-8 bytes of char c, as String::push writes them
EncodeUtf8(c) ==
    IF c < 128 THEN <<c>>
    ELSE IF c < 2048 THEN <<192 + (c \div 64), 128 + (c % 64)>>
    ELSE IF c < 65536
    THEN <<224 + (c \div 4096), 128 + ((c \div 64) % 64), 128 + (c % 64)>>
    ELSE <<240 + (c \div 262144), 128 + ((c \div 4096) % 64),
           128 + ((c \div 64) % 64), 128 + (c % 64)>>

\* str::to_uppercase: every char of s replaced by the chars of its upper case
RECURSIVE ToUppercase(_)
ToUppercase(s) ==
    IF s = <<>> THEN <<>>
    ELSE Concat([k \in 1..Len(to_upper(Scalar(Take(s, Utf8CharLen(s))))) |->
                    EncodeUtf8(to_upper(Scalar(Take(s, Utf8CharLen(s))))[k])])
         \o ToUppercase(Drop(s, Utf8CharLen(s)))

(***************************************************************************)
(* The data model (src/parser/models.rs).                                  *)
(***************************************************************************)
None == <<>>
Some(x) == <<x>>
IsSome(o) == o # <<>>
Unwrap(o) == o[1]

Text(s) == [kind |-> "Text", s |-> s]
Blank(s) == [kind |-> "Blank", s |-> s]

ContentEntry(key, values, locale) == [key |-> key, values |-> values, locale |-> locale]

Locale(lang, encoding, country, modifiers) ==
    [lang |-> lang, encoding |-> encoding, country |-> country, modifiers |-> modifiers]

\* parse_content_entry stores the text between the brackets as it stands
RawLocale(s) == [raw |-> s]

EntryContent(c) == [tag |-> "Content", content |-> c]
EntryComment(c) == [tag |-> "Comment", comment |-> c]

Group(header, content) == [header |-> header, content |-> content]

TopGroup(g) == [tag |-> "Group", group |-> g]
TopComment(c) == [tag |-> "Comment", comment |-> c]

DesktopFile(content) == [content |-> content]

\* CanBeComment::is_blank for Entry and TopLevelEntry
is_blank(item) == item.tag = "Comment" /\ item.comment.kind = "Blank"

\* CanBeComment::is_comment for Entry and TopLevelEntry
is_comment(item) == item.tag = "Comment"

(***************************************************************************)
(* nom: IResult and the combinators the grammar uses.                      *)
(***************************************************************************)
Ok(rest, o) == [ok |-> TRUE, rest |-> rest, out |-> o, kind |-> "Ok"]

\* Err(nom::Err::Error(Error { input: rest, code: kind }))
Err(rest, kind) == [ok |-> FALSE, rest |-> rest, out |-> <<>>, kind |-> kind]

\* char(c)
Char(c, i) ==
    IF i # <<>> /\ i[1] = c THEN Ok(Tail(i), c) ELSE Err(i, "Char")

\* opt(char(c)): the rest after an optional c
OptChar(c, i) == IF i # <<>> /\ i[1] = c THEN Tail(i) ELSE i

\* space0: the rest after the leading spaces and tabs
Space0(i) == Drop(i, PrefixLen({c \in Byte : IsSpace(c)}, i))

\* line_ending: "\n" or "\r\n"
LineEnding(i) ==
    IF IsPrefix(<<LF>>, i) THEN Ok(Drop(i, 1), <<LF>>)
    ELSE IF IsPrefix(<<CR, LF>>, i) THEN Ok(Drop(i, 2), <<CR, LF>>)
    ELSE Err(i, "CrLf")

\* eof
Eof(i) == IF i = <<>> THEN Ok(i, <<>>) ELSE Err(i, "Eof")

\* `?` and sequencing: the parser F runs on what r left, unless r failed
AndThen(r, F(_)) == IF r.ok THEN F(r) ELSE r

\* alt((a, b)): the error of a failed alt is the last alternative's
Alt(a, b) == IF a.ok THEN a ELSE b

\* map(p, F)
Map(r, F(_)) == IF r.ok THEN Ok(r.rest, F(r.out)) ELSE r

\* map_res(p, str::from_utf8), p having run on i: a conversion error is an
\* Error at the input of p
MapResUtf8(i, r) == IF r.ok /\ ~FromUtf8Ok(r.out) THEN Err(i, "MapRes") ELSE r

\* take_while(|c| c != b'[' && c != b']')
NotBracket == Byte \ {LBRACKET, RBRACKET}

\* delimited(char('['), take_while(|c| c != b'[' && c != b']'), char(']'))
Bracketed(i) ==
    AndThen(Char(LBRACKET, i), LAMBDA open :
        AndThen(Char(RBRACKET, Drop(open.rest, PrefixLen(NotBracket, open.rest))),
                LAMBDA close :
                    Ok(close.rest, Take(open.rest, PrefixLen(NotBracket, open.rest)))))

(***************************************************************************)
(* The grammar (src/parser/mod.rs).                                        *)
(***************************************************************************)

\* parse_group_header: '[' header ']' as UTF-8, and an optional '\n'
parse_group_header(i) ==
    AndThen(MapResUtf8(i, Bracketed(i)), LAMBDA b : Ok(OptChar(LF, b.rest), b.out))

\* parse_blank_comment_entry: multispace1
parse_blank_comment_entry(i) ==
    LET n == PrefixLen({c \in Byte : IsMultispace(c)}, i)
    IN  IF n = 0 THEN Err(i, "MultiSpace") ELSE Ok(Drop(i, n), Blank(Take(i, n)))

\* the take_while of parse_text_comment_entry: ASCII and not '\n'
CommentByte == {c \in Byte : IsAscii(c) /\ c # LF}

\* parse_text_comment_entry: '#', space0, the ASCII bytes up to the '\n', the '\n'
parse_text_comment_entry(i) ==
    AndThen(Char(HASH, i), LAMBDA hash :
        AndThen(Char(LF, Drop(Space0(hash.rest), PrefixLen(CommentByte, Space0(hash.rest)))),
                LAMBDA nl :
                    Ok(nl.rest,
                       Text(Take(Space0(hash.rest),
                                 PrefixLen(CommentByte, Space0(hash.rest)))))))

\* parse_comment_entry: alt((blank, text))
parse_comment_entry(i) ==
    Alt(parse_blank_comment_entry(i), parse_text_comment_entry(i))

\* parse_key: take_while(alphanumeric or '-'), which must be UTF-8
parse_key(i) ==
    LET n == PrefixLen({c \in Byte : IsAlphanumeric(c) \/ c = DASH}, i)
    IN  MapResUtf8(i, Ok(Drop(i, n), Take(i, n)))

\* the transform of parse_single_value: what each escaped byte is replaced by
\* (the Rust literals "\\n", "\\r", "\\s", "\\t", "\\", "\;")
Transform(c) ==
    CASE c = 110 -> <<BSLASH, 110>>
      [] c = 114 -> <<BSLASH, 114>>
      [] c = 115 -> <<BSLASH, 115>>
      [] c = 116 -> <<BSLASH, 116>>
      [] c = BSLASH -> <<BSLASH>>
      [] c = SEMI -> <<BSLASH, SEMI>>

\* the bytes the transform's alt accepts: n r s t \ ;
Escapable == {110, 114, 115, 116, BSLASH, SEMI}

\* is_not("\;\n")
Normal == Byte \ {BSLASH, SEMI, LF}

\* escaped_transform(is_not("\;\n"), '\\', transform): the loop from byte `index`
\* of i on, `res` being the text built so far
RECURSIVE EscapedTransformFrom(_, _, _)
EscapedTransformFrom(i, index, res) ==
    IF index >= Len(i) THEN Ok(Drop(i, index), res)
    ELSE
      LET remainder == Drop(i, index)
          n == PrefixLen(Normal, remainder)
          next == index + 1
      IN  IF n > 0
          THEN \* normal matched n bytes
               IF index + n = Len(i) THEN Ok(<<>>, res \o Take(remainder, n))
               ELSE EscapedTransformFrom(i, index + n, res \o Take(remainder, n))
          ELSE IF remainder[1] = BSLASH
          THEN IF next >= Len(i) THEN Err(remainder, "EscapedTransform")
               ELSE IF i[next + 1] \notin Escapable THEN Err(Drop(i, next), "Char")
               ELSE IF next + 1 = Len(i) THEN Ok(<<>>, res \o Transform(i[next + 1]))
               ELSE EscapedTransformFrom(i, next + 1, res \o Transform(i[next + 1]))
          ELSE IF index = 0 THEN Err(remainder, "EscapedTransform")
          ELSE Ok(remainder, res)

EscapedTransform(i) == EscapedTransformFrom(i, 0, <<>>)

\* parse_single_value without the trim of the text
parse_single_value_untrimmed(i) ==
    AndThen(MapResUtf8(i, EscapedTransform(i)), LAMBDA e :
        Ok(OptChar(SEMI, e.rest), e.out))

\* parse_single_value: the escaped text, as UTF-8, trimmed, and an optional ';'
parse_single_value(i) ==
    AndThen(MapResUtf8(i, EscapedTransform(i)), LAMBDA e :
        Ok(OptChar(SEMI, e.rest), Trim(e.out)))

\* many_till(parse_single_value, alt((line_ending, eof))), `res` the values so far
RECURSIVE ManyTillValues(_, _)
ManyTillValues(i, res) ==
    IF LineEnding(i).ok THEN Ok(LineEnding(i).rest, res)
    ELSE IF Eof(i).ok THEN Ok(i, res)
    ELSE AndThen(parse_single_value(i), LAMBDA v :
             IF Len(v.rest) = Len(i) THEN Err(v.rest, "ManyTill")
             ELSE ManyTillValues(v.rest, Append(res, v.out)))

\* parse_value
parse_value(i) == ManyTillValues(i, <<>>)

\* the bracketed locale parse_content_entry tries after the key
locale_result(i) == MapResUtf8(i, Bracketed(i))

\* the rest of the entry with '=' expected right after the key or the locale,
\* no space skipped before it
content_after_key_unspaced(key, locale) ==
    AndThen(Char(EQ, IF locale.ok THEN locale.rest ELSE key.rest), LAMBDA eq :
        AndThen(parse_value(Space0(eq.rest)), LAMBDA values :
            Ok(values.rest,
               ContentEntry(key.out, values.out,
                            IF locale.ok THEN Some(RawLocale(locale.out)) ELSE None))))

\* parse_content_entry after the key: space0 '=' space0 and the values, from
\* the end of the locale if there is one and from the end of the key otherwise
content_after_key(key, locale) ==
    AndThen(Char(EQ, Space0(IF locale.ok THEN locale.rest ELSE key.rest)), LAMBDA eq :
        AndThen(parse_value(Space0(eq.rest)), LAMBDA values :
            Ok(values.rest,
               ContentEntry(key.out, values.out,
                            IF locale.ok THEN Some(RawLocale(locale.out)) ELSE None))))

\* parse_content_entry: key, an optional bracketed locale, '=', values
parse_content_entry(i) ==
    AndThen(parse_key(i), LAMBDA key : content_after_key(key, locale_result(key.rest)))

\* an entry parser that takes content entries only
parse_entry_content_only(i) == Map(parse_content_entry(i), EntryContent)

\* parse_entry: alt((comment, content))
parse_entry(i) ==
    Alt(Map(parse_comment_entry(i), EntryComment),
        Map(parse_content_entry(i), EntryContent))

\* many0: the step after its parser returned e on input i, `acc` the items so
\* far, Again the loop
Many0Step(i, acc, e, Again(_, _)) ==
    IF ~e.ok THEN Ok(i, acc)
    ELSE IF Len(e.rest) = Len(i) THEN Err(i, "Many0")
    ELSE Again(e.rest, Append(acc, e.out))

\* parse_group_content: many0(parse_entry)
RECURSIVE Many0Entries(_, _)
Many0Entries(i, acc) == Many0Step(i, acc, parse_entry(i), Many0Entries)

parse_group_content(i) == Many0Entries(i, <<>>)

\* parse_group: pair(parse_group_header, parse_group_content)
parse_group(i) ==
    AndThen(parse_group_header(i), LAMBDA header :
        AndThen(parse_group_content(header.rest), LAMBDA content :
            Ok(content.rest, Group(header.out, content.out))))

\* parse_top_level_entry: alt((group, comment))
parse_top_level_entry(i) ==
    Alt(Map(parse_group(i), TopGroup), Map(parse_comment_entry(i), TopComment))

\* many0(parse_top_level_entry)
RECURSIVE Many0TopLevel(_, _)
Many0TopLevel(i, acc) == Many0Step(i, acc, parse_top_level_entry(i), Many0TopLevel)

\* the rest of the input that many0(parse_top_level_entry) leaves: try_from
\* binds it to `_`
Unconsumed(i) == Many0TopLevel(i, <<>>).rest

\* DesktopFile::try_from(&[u8]): the rest many0 leaves is dropped
try_from(i) ==
    AndThen(Many0TopLevel(i, <<>>), LAMBDA res : Ok(<<>>, DesktopFile(res.out)))

(***************************************************************************)
(* Display (src/parser/models.rs).                                         *)
(***************************************************************************)

\* [String]::join(sep)
RECURSIVE Join(_, _)
Join(ss, sep) ==
    IF ss = <<>> THEN <<>>
    ELSE IF Len(ss) = 1 THEN ss[1]
    ELSE ss[1] \o sep \o Join(Tail(ss), sep)

\* Display for CommentEntry
CommentEntryFmt(c) == IF c.kind = "Text" THEN <<HASH, SP>> \o c.s ELSE c.s

\* a Display for Locale that writes the country as stored
LocaleFmt_country_as_stored(l) ==
    IF "raw" \in DOMAIN l THEN l.raw
    ELSE l.lang
         \o (IF IsSome(l.country) THEN <<95>> \o Unwrap(l.country) ELSE <<>>)
         \o (IF IsSome(l.encoding) THEN <<46>> \o Unwrap(l.encoding) ELSE <<>>)
         \o (IF IsSome(l.modifiers) THEN <<64>> \o Unwrap(l.modifiers) ELSE <<>>)

\* Display for Locale: lang, _COUNTRY, .encoding, @modifiers. A locale the parser
\* stored is the bracket's text and is written as it stands.
LocaleFmt(l) ==
    IF "raw" \in DOMAIN l THEN l.raw
    ELSE l.lang
         \o (IF IsSome(l.country) THEN <<95>> \o ToUppercase(Unwrap(l.country)) ELSE <<>>)
         \o (IF IsSome(l.encoding) THEN <<46>> \o Unwrap(l.encoding) ELSE <<>>)
         \o (IF IsSome(l.modifiers) THEN <<64>> \o Unwrap(l.modifiers) ELSE <<>>)

\* Display for ContentEntry
ContentEntryFmt(e) ==
    e.key
    \o (IF IsSome(e.locale)
        THEN <<LBRACKET>> \o LocaleFmt(Unwrap(e.locale)) \o <<RBRACKET>>
        ELSE <<>>)
    \o <<EQ>> \o Join(e.values, <<SEMI>>)

RECURSIVE write_content(_)
RECURSIVE GroupFmt(_)

\* Display for Entry and for TopLevelEntry
ItemFmt(item) ==
    CASE item.tag = "Content" -> ContentEntryFmt(item.content)
      [] item.tag = "Comment" -> CommentEntryFmt(item.comment)
      [] item.tag = "Group" -> GroupFmt(item.group)

\* a write_content that writes a line feed after a blank too
RECURSIVE write_content_after_blanks(_)
write_content_after_blanks(content) ==
    IF content = <<>> THEN <<>>
    ELSE ItemFmt(Head(content))
         \o (IF Tail(content) # <<>> THEN <<LF>> ELSE <<>>)
         \o write_content_after_blanks(Tail(content))

\* write_content: each item, and a line feed after it when another item follows
\* and it is not a blank
write_content(content) ==
    IF content = <<>> THEN <<>>
    ELSE LET item == Head(content)
         IN  ItemFmt(item)
             \o (IF Tail(content) # <<>> /\ ~is_blank(item) THEN <<LF>> ELSE <<>>)
             \o write_content(Tail(content))

\* Display for Group
GroupFmt(g) == <<LBRACKET>> \o g.header \o <<RBRACKET, LF>> \o write_content(g.content)

\* Display for DesktopFile
DesktopFileFmt(d) == write_content(d.content)

(***************************************************************************)
(* Lookups (src/parser/models.rs). A shared reference is the item itself;  *)
(* a mutable reference is the position of the item in its collection.      *)
(***************************************************************************)

\* Result<T, Error>
ResultOk(v) == [ok |-> TRUE, value |-> v, error |-> <<>>]
ResultErr(e) == [ok |-> FALSE, value |-> <<>>, error |-> e]

\* a NotFound that does not carry the key
NotFound_without_key(key) == [kind |-> "NotFound", key |-> <<>>]

\* Error::NotFound(key)
NotFound(key) == [kind |-> "NotFound", key |-> key]

\* Option::ok_or
ok_or(o, e) == IF IsSome(o) THEN ResultOk(Unwrap(o)) ELSE ResultErr(e)

\* Group::without_comments: the content entries, in order
RECURSIVE Group_without_comments(_)
Group_without_comments(content) ==
    IF content = <<>> THEN <<>>
    ELSE IF Head(content).tag = "Content"
    THEN <<Head(content).content>> \o Group_without_comments(Tail(content))
    ELSE Group_without_comments(Tail(content))

\* Group::only_comments: the comments, in order
RECURSIVE Group_only_comments(_)
Group_only_comments(content) ==
    IF content = <<>> THEN <<>>
    ELSE IF Head(content).tag = "Comment"
    THEN <<Head(content).comment>> \o Group_only_comments(Tail(content))
    ELSE Group_only_comments(Tail(content))

\* a find that keeps the last content entry with the key
RECURSIVE Group_find_last(_, _)
Group_find_last(content, key) ==
    IF content = <<>> THEN None
    ELSE IF content[Len(content)].tag = "Content" /\ content[Len(content)].content.key = key
    THEN Some(content[Len(content)].content)
    ELSE Group_find_last(Take(content, Len(content) - 1), key)

\* Group::find: the iterator over the content entries, up to the first with the key
RECURSIVE Group_find_in(_, _)
Group_find_in(content, key) ==
    IF content = <<>> THEN None
    ELSE IF Head(content).tag = "Content" /\ Head(content).content.key = key
    THEN Some(Head(content).content)
    ELSE Group_find_in(Tail(content), key)

Group_find(g, key) == Group_find_in(g.content, key)

\* Group::find_mut: the same walk, from position i on
RECURSIVE Group_find_mut_from(_, _, _)
Group_find_mut_from(content, key, i) ==
    IF i > Len(content) THEN None
    ELSE IF content[i].tag = "Content" /\ content[i].content.key = key
    THEN Some(i)
    ELSE Group_find_mut_from(content, key, i + 1)

Group_find_mut(g, key) == Group_find_mut_from(g.content, key, 1)

\* EntrySet::get and EntrySet::get_mut, for Group
Group_get(g, key) == ok_or(Group_find(g, key), NotFound(key))

Group_get_mut(g, key) == ok_or(Group_find_mut(g, key), NotFound(key))

\* DesktopFile::without_comments: the groups, in order
RECURSIVE DesktopFile_without_comments(_)
DesktopFile_without_comments(content) ==
    IF content = <<>> THEN <<>>
    ELSE IF Head(content).tag = "Group"
    THEN <<Head(content).group>> \o DesktopFile_without_comments(Tail(content))
    ELSE DesktopFile_without_comments(Tail(content))

\* DesktopFile::only_comments: the top-level comments, in order
RECURSIVE DesktopFile_only_comments(_)
DesktopFile_only_comments(content) ==
    IF content = <<>> THEN <<>>
    ELSE IF Head(content).tag = "Comment"
    THEN <<Head(content).comment>> \o DesktopFile_only_comments(Tail(content))
    ELSE DesktopFile_only_comments(Tail(content))

\* Iterator::find on the groups: the first whose header is `header`
RECURSIVE find_group_in(_, _)
find_group_in(groups, header) ==
    IF groups = <<>> THEN None
    ELSE IF Head(groups).header = header THEN Some(Head(groups))
    ELSE find_group_in(Tail(groups), header)

\* DesktopFile::find
DesktopFile_find(d, header) ==
    find_group_in(DesktopFile_without_comments(d.content), header)

\* DesktopFile::find_mut: the walk over the top-level items, from position i on
RECURSIVE DesktopFile_find_mut_from(_, _, _)
DesktopFile_find_mut_from(content, header, i) ==
    IF i > Len(content) THEN None
    ELSE IF content[i].tag = "Group" /\ content[i].group.header = header
    THEN Some(i)
    ELSE DesktopFile_find_mut_from(content, header, i + 1)

DesktopFile_find_mut(d, header) == DesktopFile_find_mut_from(d.content, header, 1)

\* EntrySet::get and EntrySet::get_mut, for DesktopFile
DesktopFile_get(d, header) == ok_or(DesktopFile_find(d, header), NotFound(header))

DesktopFile_get_mut(d, header) == ok_or(DesktopFile_find_mut(d, header), NotFound(header))

\* LocaleOptions
LocaleOptions(locale, country, encoding, modifier) ==
    [locale |-> locale, country |-> country, encoding |-> encoding, modifier |-> modifier]

\* an equals_options that compares every field, whatever the options
equals_options_unmasked(self, options) ==
    /\ self.lang = options.locale.lang
    /\ self.country = options.locale.country
    /\ self.encoding = options.locale.encoding
    /\ self.modifiers = options.locale.modifiers

\* an equals_options in which each significant field overwrites the result
\* (res = ...) instead of narrowing it (res &= ...)
equals_options_overwriting(self, options) ==
    LET rhs == options.locale
        res0 == self.lang = rhs.lang
        res1 == IF options.country THEN self.country = rhs.country ELSE res0
        res2 == IF options.encoding THEN self.encoding = rhs.encoding ELSE res1
        res3 == IF options.modifier THEN self.modifiers = rhs.modifiers ELSE res2
    IN  res3

\* Locale::equals_options
equals_options(self, options) ==
    LET rhs == options.locale
        res0 == self.lang = rhs.lang
        res1 == IF options.country THEN res0 /\ self.country = rhs.country ELSE res0
        res2 == IF options.encoding THEN res1 /\ self.encoding = rhs.encoding ELSE res1
        res3 == IF options.modifier THEN res2 /\ self.modifiers = rhs.modifiers ELSE res2
    IN  res3

\* the closure of find_with_locale: the key, and no locale or one that equals_options
locale_matches(e, key, options) ==
    /\ e.key = key
    /\ IF IsSome(e.locale) THEN equals_options(Unwrap(e.locale), options) ELSE TRUE

\* Group::find_with_locale
RECURSIVE find_with_locale_in(_, _, _)
find_with_locale_in(content, key, options) ==
    IF content = <<>> THEN None
    ELSE IF Head(content).tag = "Content" /\ locale_matches(Head(content).content, key, options)
    THEN Some(Head(content).content)
    ELSE find_with_locale_in(Tail(content), key, options)

find_with_locale(g, key, options) == find_with_locale_in(g.content, key, options)

\* Group::find_with_locale_mut
RECURSIVE find_with_locale_mut_from(_, _, _, _)
find_with_locale_mut_from(content, key, options, i) ==
    IF i > Len(content) THEN None
    ELSE IF content[i].tag = "Content" /\ locale_matches(content[i].content, key, options)
    THEN Some(i)
    ELSE find_with_locale_mut_from(content, key, options, i + 1)

find_with_locale_mut(g, key, options) ==
    find_with_locale_mut_from(g.content, key, options, 1)

(***************************************************************************)
(* Files: a text file is parsed, then written back or searched.            *)
(***************************************************************************)

\* how many pieces a file of the model is made of
MaxPieces == 3

\* the IResult of a run in which no parser has run yet
NotRun == [ok |-> FALSE, rest |-> <<>>, out |-> <<>>, kind |-> "NotRun"]

\* "G", "H": the group headers, and "K", "L": the keys, of the files and lookups
Headers == {<<71>>, <<72>>}
Keys == {<<75>>, <<76>>}

\* the pieces: "[G]\n", "[H]\n", "K=a\n", "K=b", "L=a;b\n", "\n", "# c\n", "#c\n",
\* " ", and the malformed "K\n", "K=\q\n", "[G"
Pieces ==
    {<<LBRACKET, 71, RBRACKET, LF>>,
     <<LBRACKET, 72, RBRACKET, LF>>,
     <<75, EQ, 97, LF>>,
     <<75, EQ, 98>>,
     <<76, EQ, 97, SEMI, 98, LF>>,
     <<LF>>,
     <<HASH, SP, 99, LF>>,
     <<HASH, 99, LF>>,
     <<SP>>,
     <<75, LF>>,
     <<75, EQ, BSLASH, 113, LF>>,
     <<LBRACKET, 71>>}

\* the sequences of at most n pieces
RECURSIVE PieceSeqs(_)
PieceSeqs(n) ==
    IF n = 0 THEN {<<>>}
    ELSE LET shorter == PieceSeqs(n - 1)
         IN  shorter \cup {Append(ps, p) : ps \in shorter, p \in Pieces}

Files == {Concat(ps) : ps \in PieceSeqs(MaxPieces)}

Init ==
    /\ input \in Files
    /\ pc = "start"
    /\ doc = DesktopFile(<<>>)
    /\ parsed = NotRun
    /\ out = <<>>
    /\ query = <<>>
    /\ found = <<>>

\* let file = DesktopFile::try_from(input)
TryFrom ==
    /\ pc = "start"
    /\ parsed' = try_from(input)
    /\ doc' = IF parsed'.ok THEN parsed'.out ELSE doc
    /\ pc' = IF parsed'.ok THEN "parsed" ELSE "failed"
    /\ UNCHANGED <<input, out, query, found>>

\* file.to_string()
to_string ==
    /\ pc = "parsed"
    /\ out' = DesktopFileFmt(doc)
    /\ pc' = "rendered"
    /\ UNCHANGED <<input, doc, parsed, query, found>>

\* file.find(header) and file.find_mut(header), then find(key) and find_mut(key)
\* on the group found
Find ==
    /\ pc = "parsed"
    /\ \E header \in Headers, key \in Keys :
         LET g == DesktopFile_find(doc, header)
         IN  /\ query' = [header |-> header, key |-> key]
             /\ found' = [group |-> g,
                          group_mut |-> DesktopFile_find_mut(doc, header),
                          entry |-> IF IsSome(g) THEN Group_find(Unwrap(g), key) ELSE None,
                          entry_mut |-> IF IsSome(g) THEN Group_find_mut(Unwrap(g), key)
                                        ELSE None]
    /\ pc' = "found"
    /\ UNCHANGED <<input, doc, parsed, out>>

Next == TryFrom \/ to_string \/ Find

Spec == Init /\ [][Next]_vars

(***************************************************************************)
(* Layouts: files of well-formed lines under a first group, ending in an   *)
(* entry with or without a final newline, parsed and written back.         *)
(***************************************************************************)

\* how many lines a layout has between its first header and its last entry
MaxLines == 3

\* the lines: "K=a\n", "L=a;b\n", "\n", "# c\n", "[H]\n"
Lines ==
    {<<75, EQ, 97, LF>>,
     <<76, EQ, 97, SEMI, 98, LF>>,
     <<LF>>,
     <<HASH, SP, 99, LF>>,
     <<LBRACKET, 72, RBRACKET, LF>>}

\* "[G]\n", at most MaxLines lines, and "K=b" or "K=b\n"
Layouts ==
    {<<LBRACKET, 71, RBRACKET, LF>> \o Concat(ls) \o last :
        ls \in UNION {[1..k -> Lines] : k \in 0..MaxLines},
        last \in {<<75, EQ, 98>>, <<75, EQ, 98, LF>>}}

InitLayout ==
    /\ input \in Layouts
    /\ pc = "start"
    /\ doc = DesktopFile(<<>>)
    /\ parsed = NotRun
    /\ out = <<>>
    /\ query = <<>>
    /\ found = <<>>

NextLayout == TryFrom \/ to_string

SpecLayout == InitLayout /\ [][NextLayout]_vars

(***************************************************************************)
(* What the claims speak of: the lines of a file, read without the parser. *)
(***************************************************************************)
Min(S) == CHOOSE m \in S : \A n \in S : m <= n

\* the lines of x, without their line feeds
RECURSIVE SplitLines(_)
SplitLines(x) ==
    IF x = <<>> THEN <<>>
    ELSE LET n == PrefixLen(Byte \ {LF}, x)
         IN  <<Take(x, n)>> \o (IF n >= Len(x) THEN <<>> ELSE SplitLines(Drop(x, n + 1)))

\* v, cut at every byte c
RECURSIVE SplitAt(_, _)
SplitAt(v, c) ==
    IF v = <<>> THEN <<>>
    ELSE LET n == PrefixLen(Byte \ {c}, v)
         IN  <<Take(v, n)>> \o (IF n >= Len(v) THEN <<>> ELSE SplitAt(Drop(v, n + 1), c))

\* byte i of x lies in a line after a '#'
InHashLine(x, i) == \E j \in 1..i : x[j] = HASH /\ \A k \in j..i : x[k] # LF

\* a file all of whose text the grammar accepts, with no escape sequence, no
\* space, tab or carriage return outside a '#' line, no empty value, and
\* every '#' followed by one space and then the comment's text
PlainText(x) ==
    /\ Unconsumed(x) = <<>>
    /\ \A i \in 1..Len(x) : x[i] # BSLASH
    /\ \A i \in 1..Len(x) : x[i] \in {SP, TAB, CR} => InHashLine(x, i)
    /\ \A i \in 1..(Len(x) - 1) : x[i] \in {EQ, SEMI} => x[i + 1] # SEMI
    /\ \A i \in 1..Len(x) :
         x[i] = HASH => /\ i + 2 <= Len(x)
                        /\ x[i + 1] = SP
                        /\ x[i + 2] \notin {SP, TAB, CR, LF}

\* every comment of a document in document order: the top-level ones and, at
\* the place of each group, the group's
RECURSIVE AllComments(_)
AllComments(content) ==
    IF content = <<>> THEN <<>>
    ELSE (IF Head(content).tag = "Comment" THEN <<Head(content).comment>>
          ELSE Group_only_comments(Head(content).group.content))
         \o AllComments(Tail(content))

\* the texts of the '#' lines of x: the line without '#' and the spaces after it
HashLineTexts(x) ==
    LET hs == SelectSeq(SplitLines(x), LAMBDA l : l # <<>> /\ l[1] = HASH)
    IN  [i \in 1..Len(hs) |-> Space0(Tail(hs[i]))]

\* no two blanks follow each other in a list of items
NoAdjacentBlanks(content) ==
    \A i \in 1..(Len(content) - 1) : ~(is_blank(content[i]) /\ is_blank(content[i + 1]))

\* the comments of d are the '#' lines and the whitespace runs of x
CommentsCaptured(x, d) ==
    LET cs == AllComments(d.content)
        texts == SelectSeq(cs, LAMBDA c : c.kind = "Text")
    IN  /\ [i \in 1..Len(texts) |-> texts[i].s] = HashLineTexts(x)
        /\ \A i \in 1..Len(cs) :
             cs[i].kind = "Blank" =>
                 /\ cs[i].s # <<>>
                 /\ \A k \in 1..Len(cs[i].s) : IsMultispace(cs[i].s[k])
        /\ NoAdjacentBlanks(d.content)
        /\ \A i \in 1..Len(d.content) :
             d.content[i].tag = "Group" => NoAdjacentBlanks(d.content[i].group.content)

\* the key bytes of the grammar: ASCII alphanumerics and '-'
KeyByte(c) == c \in 48..57 \/ c \in 65..90 \/ c \in 97..122 \/ c = DASH

\* a printable ASCII byte that is neither a space nor ';'
ValueEdge(c) == c \in 33..126 /\ c # SEMI

\* the text of a value list with no escape, no empty value, and no white space
\* at the ends of a value
ValueTextOk(v) ==
    /\ \A i \in 1..Len(v) : v[i] # BSLASH
    /\ v # <<>> => ValueEdge(v[1]) /\ ValueEdge(v[Len(v)])
    /\ \A i \in 1..(Len(v) - 1) :
         /\ v[i] = SEMI => ValueEdge(v[i + 1])
         /\ v[i + 1] = SEMI => ValueEdge(v[i])

\* the position of the first '=' of line l, Len(l) + 1 if it has none
EqAt(l) == PrefixLen(Byte \ {EQ}, l) + 1

IsHeaderLine(l) ==
    /\ Len(l) >= 2 /\ l[1] = LBRACKET /\ l[Len(l)] = RBRACKET
    /\ \A i \in 2..(Len(l) - 1) : IsAscii(l[i]) /\ l[i] \notin {LBRACKET, RBRACKET}

IsHashLine(l) == l # <<>> /\ l[1] = HASH /\ \A i \in 1..Len(l) : IsAscii(l[i])

IsBlankLine(l) == \A i \in 1..Len(l) : IsMultispace(l[i])

IsContentLine(l) ==
    /\ EqAt(l) <= Len(l)
    /\ \A i \in 1..(EqAt(l) - 1) : KeyByte(l[i])
    /\ ValueTextOk(Drop(l, EqAt(l)))

\* a file of header lines, key=value lines, '#' lines and blank lines, the
\* first key=value line after a header line, the last '#' line ended by '\n'
Canonical(x) ==
    LET ls == SplitLines(x)
    IN  /\ \A i \in 1..Len(ls) :
             IsHeaderLine(ls[i]) \/ IsHashLine(ls[i]) \/ IsBlankLine(ls[i])
                 \/ IsContentLine(ls[i])
        /\ \A i \in 1..Len(ls) :
             IsContentLine(ls[i]) => \E j \in 1..(i - 1) : IsHeaderLine(ls[j])
        /\ (ls # <<>> /\ IsHashLine(ls[Len(ls)])) => x[Len(x)] = LF

\* the groups the lines ls spell out, after the groups gs: each header line
\* opens a group, each key=value line adds [key, values] to the last group
RECURSIVE LinesToGroups(_, _)
LinesToGroups(ls, gs) ==
    IF ls = <<>> THEN gs
    ELSE LET l == Head(ls)
         IN  IF IsHeaderLine(l)
             THEN LinesToGroups(Tail(ls),
                      Append(gs, [header |-> SubSeq(l, 2, Len(l) - 1), entries |-> <<>>]))
             ELSE IF IsContentLine(l) /\ gs # <<>>
             THEN LinesToGroups(Tail(ls),
                      [gs EXCEPT ![Len(gs)].entries =
                          Append(@, [key |-> Take(l, EqAt(l) - 1),
                                     values |-> SplitAt(Drop(l, EqAt(l)), SEMI)])])
             ELSE LinesToGroups(Tail(ls), gs)

ExpectedGroups(x) == LinesToGroups(SplitLines(x), <<>>)

\* the groups of document d with the keys and values of their content entries
ActualGroups(d) ==
    LET gs == SelectSeq(d.content, LAMBDA t : t.tag = "Group")
        es(g) == SelectSeq(g.content, LAMBDA e : e.tag = "Content")
    IN  [i \in 1..Len(gs) |->
            [header |-> gs[i].group.header,
             entries |-> [j \in 1..Len(es(gs[i].group)) |->
                             [key |-> es(gs[i].group)[j].content.key,
                              values |-> es(gs[i].group)[j].content.values]]]]

\* the positions of the groups of d with this header
GroupsAt(d, header) ==
    {i \in 1..Len(d.content) :
        d.content[i].tag = "Group" /\ d.content[i].group.header = header}

\* the positions of the content entries of g with this key
EntriesAt(g, key) ==
    {j \in 1..Len(g.content) :
        g.content[j].tag = "Content" /\ g.content[j].content.key = key}

(***************************************************************************)
(* Claims on files.                                                        *)
(***************************************************************************)

\* C1: for every text the grammar accepts that has no escape sequence, no white
\* space around '=' or values and no empty value, the text written from the
\* parsed document is the input, byte for byte.
C1_RoundTripIdentity == (pc = "rendered" /\ PlainText(input)) => out = input

\* C2: whenever the grammar does not accept the whole input, try_from returns
\* an error, and never Ok with the document of the part before the violation.
C2_MalformedFailsWholeParse == (pc # "start" /\ Unconsumed(input) # <<>>) => ~parsed.ok

\* C3: for a text with blank-line runs and '#' lines between its entries (the
\* last line an entry with no newline after it), the parsed document holds each
\* whitespace run as one Blank and each '#' line as a Text, in order, and the
\* text written from it has the spacing of the input.
C3_CommentsPreserved ==
    (pc = "rendered" /\ PlainText(input) /\ AllComments(doc.content) # <<>>
        /\ input[Len(input)] # LF)
        => (CommentsCaptured(input, doc) /\ out = input)

\* the first half of C3 alone
CommentsAreCaptured ==
    (pc = "rendered" /\ PlainText(input)) => CommentsCaptured(input, doc)

\* C6: parsing keeps every group and every content entry, repeated keys
\* included, in input order; find and find_mut return the first group with the
\* header, and in it the content entry at the lowest position with the key
\* (None if there is none); the document is not changed by the lookup.
C6_DuplicatesKeptFirstFound ==
    /\ (pc # "start" /\ Canonical(input)) =>
           /\ Unconsumed(input) = <<>>
           /\ ActualGroups(doc) = ExpectedGroups(input)
    /\ pc = "found" =>
           /\ doc = parsed.out
           /\ IF GroupsAt(doc, query.header) = {}
              THEN found = [group |-> None, group_mut |-> None,
                            entry |-> None, entry_mut |-> None]
              ELSE LET gi == Min(GroupsAt(doc, query.header))
                       g == doc.content[gi].group
                   IN  /\ found.group = Some(g)
                       /\ found.group_mut = Some(gi)
                       /\ IF EntriesAt(g, query.key) = {}
                          THEN found.entry = None /\ found.entry_mut = None
                          ELSE /\ found.entry_mut = Some(Min(EntriesAt(g, query.key)))
                               /\ found.entry =
                                      Some(g.content[Min(EntriesAt(g, query.key))].content)

\* C6 witness: a lookup in a canonical file whose first group with the header
\* holds the key twice, with different values
C6_Witness ==
    /\ pc = "found" /\ Canonical(input) /\ IsSome(found.entry_mut)
    /\ \E j \in EntriesAt(Unwrap(found.group), query.key) :
         /\ j > Unwrap(found.entry_mut)
         /\ Unwrap(found.group).content[j].content.values # Unwrap(found.entry).values

(***************************************************************************)
(* Values: the text after a key's '=' is parsed as a value list, alone,     *)
(* with a ';' written after its last value, and as the entry "K=" text.     *)
(***************************************************************************)

\* how long a value text of the model is at most
MaxValueLen == 4

\* the bytes of the value texts: 'a', 'n', ' ', ';', '\', '\n', '\r'
ValueBytes == {97, 110, SP, SEMI, BSLASH, LF, CR}

ValueTexts == UNION {[1..k -> ValueBytes] : k \in 0..MaxValueLen}

\* byte i of t is a backslash that opens an escape sequence
RECURSIVE IsEscStart(_, _)
IsEscStart(t, i) == t[i] = BSLASH /\ (i = 1 \/ ~IsEscStart(t, i - 1))

\* byte i of t is not the second byte of an escape sequence
Unescaped(t, i) == i = 1 \/ ~IsEscStart(t, i - 1)

\* the position of the first unescaped '\n' of t, Len(t) + 1 if it has none
ListEnd(t) ==
    Min({i \in 1..Len(t) : t[i] = LF /\ Unescaped(t, i)} \cup {Len(t) + 1})

\* the text of the list: t up to its line ending ("\n" or "\r\n") or its end
ListBody(t) ==
    LET e == ListEnd(t)
    IN  IF e <= Len(t) /\ e >= 2 /\ t[e - 1] = CR /\ Unescaped(t, e - 1)
        THEN Take(t, e - 2)
        ELSE Take(t, e - 1)

\* t from byte i on, cut at every unescaped ';', `cur` the piece being read
RECURSIVE PiecesFrom(_, _, _)
PiecesFrom(t, i, cur) ==
    IF i > Len(t) THEN <<cur>>
    ELSE IF t[i] = SEMI /\ Unescaped(t, i) THEN <<cur>> \o PiecesFrom(t, i + 1, <<>>)
    ELSE PiecesFrom(t, i + 1, Append(cur, t[i]))

\* the pieces of the list of t; nothing follows the ';' after the last value
Listed(t) ==
    LET ps == PiecesFrom(ListBody(t), 1, <<>>)
    IN  IF ps[Len(ps)] = <<>> THEN Take(ps, Len(ps) - 1) ELSE ps

\* some backslash of the list of t is followed by no byte or by a byte that is
\* not one of n r s t \ ;
UnknownEscape(t) ==
    \E i \in 1..(ListEnd(t) - 1) :
        IsEscStart(t, i) /\ (i = Len(t) \/ t[i + 1] \notin Escapable)

\* the lists of the value grammar: known escapes only, and no empty piece
Accepted(t) == ~UnknownEscape(t) /\ \A k \in 1..Len(Listed(t)) : Listed(t)[k] # <<>>

\* p with each escape sequence replaced by what `table` gives for its second byte
RECURSIVE Unescape(_, _)
Unescape(p, table) ==
    IF p = <<>> THEN <<>>
    ELSE IF p[1] = BSLASH /\ Len(p) >= 2 /\ p[2] \in DOMAIN table
    THEN table[p[2]] \o Unescape(Drop(p, 2), table)
    ELSE <<p[1]>> \o Unescape(Tail(p), table)

\* what the escape sequences stand for: newline, carriage return, space, tab,
\* backslash, semicolon
Decoded == [c \in Escapable |->
               CASE c = 110 -> <<LF>> [] c = 114 -> <<CR>> [] c = 115 -> <<SP>>
                 [] c = 116 -> <<TAB>> [] c = BSLASH -> <<BSLASH>> [] c = SEMI -> <<SEMI>>]

\* what parse_single_value's transform writes for them
Transformed == [c \in Escapable |-> Transform(c)]

\* the list of t ends with a value, not with a ';'
EndsWithValue(t) ==
    LET b == ListBody(t)
    IN  b # <<>> /\ ~(b[Len(b)] = SEMI /\ Unescaped(b, Len(b)))

\* t with a ';' written after the last value of its list
WithSeparator(t) == ListBody(t) \o <<SEMI>> \o Drop(t, Len(ListBody(t)))

InitValues ==
    /\ input \in ValueTexts
    /\ pc = "start"
    /\ doc = DesktopFile(<<>>)
    /\ parsed = NotRun
    /\ out = <<>>
    /\ query = <<>>
    /\ found = <<>>

\* parse_value(input)
ParseValue ==
    /\ pc = "start"
    /\ parsed' = parse_value(input)
    /\ pc' = "value"
    /\ UNCHANGED <<input, doc, out, query, found>>

\* parse_value on the same list written with a trailing ';'
ParseValueSeparated ==
    /\ pc = "value"
    /\ query' = WithSeparator(input)
    /\ found' = parse_value(query')
    /\ pc' = "separated"
    /\ UNCHANGED <<input, doc, parsed, out>>

\* parse_content_entry on "K=" and the input
ParseContentEntry ==
    /\ pc = "start"
    /\ parsed' = parse_content_entry(<<75, EQ>> \o input)
    /\ pc' = "entry"
    /\ UNCHANGED <<input, doc, out, query, found>>

NextValues == ParseValue \/ ParseValueSeparated \/ ParseContentEntry

SpecValues == InitValues /\ [][NextValues]_vars

\* a text that is one value on one line: not empty, no unescaped ';' or '\n',
\* only known escapes, and no white space at its ends, decoded or not
OneValue(t) ==
    /\ t # <<>> /\ ~UnknownEscape(t)
    /\ \A i \in 1..Len(t) : t[i] \in {SEMI, LF} => ~Unescaped(t, i)
    /\ Trim(t) = t
    /\ Trim(Unescape(t, Decoded)) = Unescape(t, Decoded)

\* C4: in the value of an entry, \n \r \s \t \\ \; are stored as newline,
\* carriage return, space, tab, backslash and semicolon, and a backslash before
\* any other byte or at the end of the input makes the entry fail to parse.
C4_EscapesDecoded ==
    pc = "entry" =>
        /\ OneValue(input) => (parsed.ok /\ parsed.out.values = <<Unescape(input, Decoded)>>)
        /\ UnknownEscape(input) => ~parsed.ok

\* the second half of C4 alone
UnknownEscapeFails == (pc = "entry" /\ UnknownEscape(input)) => ~parsed.ok

\* C5: parse_value accepts the lists with known escapes and no empty piece; it
\* stops at the first unescaped line ending or at the end of the input, its
\* values are the pieces between the unescaped ';' in order, each with white
\* space trimmed at both ends, and the list written with a ';' after its last
\* value gives the same values and the same rest.
C5_MultiValueParsing ==
    /\ pc \in {"value", "separated"} =>
           /\ parsed.ok <=> Accepted(input)
           /\ parsed.ok =>
                  /\ parsed.rest = Drop(input, ListEnd(input))
                  /\ parsed.out = [k \in 1..Len(Listed(input)) |->
                                      Trim(Unescape(Listed(input)[k], Transformed))]
    /\ (pc = "separated" /\ parsed.ok /\ EndsWithValue(input)) =>
           /\ found.ok
           /\ found.out = parsed.out
           /\ found.rest = parsed.rest

\* C5 witness: a list of two values or more, one of them with white space to
\* trim, parsed with and without the ';' after its last value
C5_Witness ==
    /\ pc = "separated" /\ parsed.ok /\ EndsWithValue(input) /\ found.ok
    /\ Len(parsed.out) >= 2
    /\ \A k \in 1..Len(parsed.out) : parsed.out[k] # <<>>
    /\ \E k \in 1..Len(parsed.out) : parsed.out[k] # Listed(input)[k]

(***************************************************************************)
(* Localized entries: a group built in memory is searched with a locale,   *)
(* and its entries and their locales are written.                          *)
(***************************************************************************)

\* how many entries a group of the model has at most
MaxEntries == 2

\* the locales of the entries: "en" or "fr", encoding "U", country "us",
\* modifier "m", each of the three there or not
LocalePool ==
    {Locale(lang, encoding, country, modifiers) :
        lang \in {<<101, 110>>, <<102, 114>>},
        encoding \in {None, Some(<<85>>)},
        country \in {None, Some(<<117, 115>>)},
        modifiers \in {None, Some(<<109>>)}}

\* the locales looked for: en_US.U@m and en
WantedLocales ==
    {Locale(<<101, 110>>, Some(<<85>>), Some(<<117, 115>>), Some(<<109>>)),
     Locale(<<101, 110>>, None, None, None)}

\* the entries: K=v with every locale or none; L with no value or the values
\* "a;" and "\", with the locale en_US.U@m, the locale "de" with the country
\* e acute, sharp s (UTF-8), or none; the comment "# c"
EntryPool ==
    {EntryContent(ContentEntry(<<75>>, << <<118>> >>, l)) :
        l \in {None} \cup {Some(x) : x \in LocalePool}}
    \cup {EntryContent(ContentEntry(<<76>>, vs, l)) :
              vs \in {<<>>, << <<97, SEMI>>, <<BSLASH>> >>},
              l \in {None,
                     Some(Locale(<<101, 110>>, Some(<<85>>), Some(<<117, 115>>),
                                 Some(<<109>>))),
                     Some(Locale(<<100, 101>>, None, Some(<<195, 169, 195, 159>>),
                                 None))}}
    \cup {EntryComment(Text(<<99>>))}

GroupContents == UNION {[1..k -> EntryPool] : k \in 0..MaxEntries}

\* the group of the document
TheGroup == doc.content[1].group

InitLocale ==
    /\ \E content \in GroupContents :
           doc = DesktopFile(<<TopGroup(Group(<<71>>, content))>>)
    /\ pc = "built"
    /\ input = <<>>
    /\ parsed = NotRun
    /\ out = <<>>
    /\ query = <<>>
    /\ found = <<>>

\* group.find_with_locale("K", &options)
FindWithLocale ==
    /\ pc = "built"
    /\ \E locale \in WantedLocales, country \in BOOLEAN, encoding \in BOOLEAN,
          modifier \in BOOLEAN :
         /\ query' = [key |-> <<75>>,
                      options |-> LocaleOptions(locale, country, encoding, modifier)]
         /\ found' = [op |-> "find_with_locale",
                      result |-> find_with_locale(TheGroup, query'.key, query'.options)]
    /\ pc' = "located"
    /\ UNCHANGED <<input, doc, parsed, out>>

\* group.find_with_locale_mut("K", &options)
FindWithLocaleMut ==
    /\ pc = "built"
    /\ \E locale \in WantedLocales, country \in BOOLEAN, encoding \in BOOLEAN,
          modifier \in BOOLEAN :
         /\ query' = [key |-> <<75>>,
                      options |-> LocaleOptions(locale, country, encoding, modifier)]
         /\ found' = [op |-> "find_with_locale_mut",
                      result |-> find_with_locale_mut(TheGroup, query'.key, query'.options)]
    /\ pc' = "located"
    /\ UNCHANGED <<input, doc, parsed, out>>

\* entry.to_string() of a content entry of the group
EntryToString ==
    /\ pc = "built"
    /\ \E j \in 1..Len(TheGroup.content) :
         /\ TheGroup.content[j].tag = "Content"
         /\ query' = [entry |-> j]
         /\ out' = ContentEntryFmt(TheGroup.content[j].content)
    /\ pc' = "entry written"
    /\ UNCHANGED <<input, doc, parsed, found>>

\* locale.to_string() of the locale of a content entry of the group
LocaleToString ==
    /\ pc = "built"
    /\ \E j \in 1..Len(TheGroup.content) :
         /\ TheGroup.content[j].tag = "Content"
         /\ IsSome(TheGroup.content[j].content.locale)
         /\ query' = [entry |-> j]
         /\ out' = LocaleFmt(Unwrap(TheGroup.content[j].content.locale))
    /\ pc' = "locale written"
    /\ UNCHANGED <<input, doc, parsed, found>>

NextLocale == FindWithLocale \/ FindWithLocaleMut \/ EntryToString \/ LocaleToString

SpecLocale == InitLocale /\ [][NextLocale]_vars

\* entry e has the key, and no locale or one equal to the wanted locale on the
\* language and on each field the options mark significant
Qualifies(e, key, options) ==
    /\ e.key = key
    /\ \/ e.locale = None
       \/ LET l == Unwrap(e.locale)
              w == options.locale
          IN  /\ l.lang = w.lang
              /\ options.country => l.country = w.country
              /\ options.encoding => l.encoding = w.encoding
              /\ options.modifier => l.modifiers = w.modifiers

\* the positions of the content entries of g that qualify
QualifyingAt(g, key, options) ==
    {j \in 1..Len(g.content) :
        g.content[j].tag = "Content" /\ Qualifies(g.content[j].content, key, options)}

\* C7: find_with_locale and find_with_locale_mut return the first content entry
\* of the group with the key and with no locale or a locale equal to the wanted
\* one on the language and on each significant field, and None if there is none.
C7_LocaleAwareLookup ==
    pc = "located" =>
        LET at == QualifyingAt(TheGroup, query.key, query.options)
        IN  IF at = {} THEN found.result = None
            ELSE IF found.op = "find_with_locale"
            THEN found.result = Some(TheGroup.content[Min(at)].content)
            ELSE found.result = Some(Min(at))

\* C7 witness: the entry found has a locale that differs from the wanted one on
\* a field that is not significant, and comes after an entry with the key
\* whose locale differs on a significant field or on the language
C7_Witness ==
    /\ pc = "located" /\ found.op = "find_with_locale_mut" /\ IsSome(found.result)
    /\ LET j == Unwrap(found.result)
           e == TheGroup.content[j].content
       IN  /\ IsSome(e.locale)
           /\ Unwrap(e.locale) # query.options.locale
           /\ j > 1
           /\ TheGroup.content[1].tag = "Content"
           /\ TheGroup.content[1].content.key = query.key

\* s in upper case, for the letters of the locales of the runs: the ASCII
\* letters, e acute (to E acute) and sharp s (to SS)
RECURSIVE UpperCased(_)
UpperCased(s) ==
    IF s = <<>> THEN <<>>
    ELSE IF s[1] \in 97..122 THEN <<s[1] - 32>> \o UpperCased(Tail(s))
    ELSE IF SubSeq(s, 1, 2) = <<195, 169>> THEN <<195, 137>> \o UpperCased(SubSeq(s, 3, Len(s)))
    ELSE IF SubSeq(s, 1, 2) = <<195, 159>> THEN <<83, 83>> \o UpperCased(SubSeq(s, 3, Len(s)))
    ELSE <<s[1]>> \o UpperCased(Tail(s))

\* the text of a locale: language, '_' COUNTRY, '.' encoding, '@' modifier
LocaleText(l) ==
    Concat(<<l.lang,
             IF l.country = None THEN <<>> ELSE <<95>> \o UpperCased(l.country[1]),
             IF l.encoding = None THEN <<>> ELSE <<46>> \o l.encoding[1],
             IF l.modifiers = None THEN <<>> ELSE <<64>> \o l.modifiers[1]>>)

\* the text of a content entry: key, '[' locale ']', '=', the values with a
\* ';' between them, each as stored
EntryText(e) ==
    Concat(<<e.key,
             IF e.locale = None THEN <<>>
             ELSE <<LBRACKET>> \o LocaleText(e.locale[1]) \o <<RBRACKET>>,
             <<EQ>>,
             Concat([k \in 1..Len(e.values) |->
                        IF k < Len(e.values) THEN e.values[k] \o <<SEMI>>
                        ELSE e.values[k]])>>)

\* C10: a content entry is written as its key, '[' locale ']' if it has a
\* locale, '=', and its values joined with ';', unescaped; a locale as its
\* language, '_' and the upper-cased country, '.' and the encoding, '@' and
\* the modifier, each if present, in that order.
C10_EntryAndLocaleRendering ==
    /\ pc = "entry written" => out = EntryText(TheGroup.content[query.entry].content)
    /\ pc = "locale written" =>
           out = LocaleText(Unwrap(TheGroup.content[query.entry].content.locale))

\* C10 witness: an entry written with a country, an encoding and a modifier
\* in its locale, and two values, one with a ';' and one with a backslash
C10_Witness ==
    /\ pc = "entry written"
    /\ LET e == TheGroup.content[query.entry].content
       IN  /\ IsSome(e.locale)
           /\ IsSome(Unwrap(e.locale).country)
           /\ IsSome(Unwrap(e.locale).encoding)
           /\ IsSome(Unwrap(e.locale).modifiers)
           /\ Len(e.values) = 2
    /\ out = <<76, LBRACKET, 101, 110, 95, 85, 83, 46, 85, 64, 109, RBRACKET, EQ,
               97, SEMI, SEMI, BSLASH>>

(***************************************************************************)
(* Documents: a document built in memory is written, and searched with get *)
(* and get_mut.                                                            *)
(***************************************************************************)

\* how many items (top-level items and entries of groups) a document of the
\* model has at most
MaxSize == 3

\* the top-level items pushed: a blank line, "# c", the groups G and H
TopPool ==
    {TopComment(Blank(<<LF>>)), TopComment(Text(<<99>>))}
    \cup {TopGroup(Group(h, <<>>)) : h \in Headers}

\* the entries pushed: a blank line, "# c", K=a, K=b, L=a;b
EntryItems ==
    {EntryComment(Blank(<<LF>>)), EntryComment(Text(<<99>>)),
     EntryContent(ContentEntry(<<75>>, << <<97>> >>, None)),
     EntryContent(ContentEntry(<<75>>, << <<98>> >>, None)),
     EntryContent(ContentEntry(<<76>>, << <<97>>, <<98>> >>, None))}

\* the contents of the documents of at most n items: each is made by pushing
\* a top-level item, or an entry onto the group that is the last item
RECURSIVE Contents(_)
Contents(n) ==
    IF n = 0 THEN {<<>>}
    ELSE LET smaller == Contents(n - 1)
         IN  smaller
             \cup {Append(c, t) : c \in smaller, t \in TopPool}
             \cup {[c EXCEPT ![Len(c)].group.content = Append(@, e)] :
                      c \in {x \in smaller : x # <<>> /\ x[Len(x)].tag = "Group"},
                      e \in EntryItems}

InitModel ==
    /\ \E content \in Contents(MaxSize) : doc = DesktopFile(content)
    /\ pc = "built"
    /\ input = <<>>
    /\ parsed = NotRun
    /\ out = <<>>
    /\ query = <<>>
    /\ found = <<>>

\* the positions of the groups of the document
GroupPositions == {i \in 1..Len(doc.content) : doc.content[i].tag = "Group"}

\* document.to_string()
DocumentToString ==
    /\ pc = "built"
    /\ query' = [of |-> "document"]
    /\ out' = DesktopFileFmt(doc)
    /\ pc' = "written"
    /\ UNCHANGED <<input, doc, parsed, found>>

\* group.to_string() of a group of the document
GroupToString ==
    /\ pc = "built"
    /\ \E i \in GroupPositions :
         /\ query' = [of |-> "group", group |-> i]
         /\ out' = GroupFmt(doc.content[i].group)
    /\ pc' = "written"
    /\ UNCHANGED <<input, doc, parsed, found>>

\* document.find(header) and document.get(header)
DocumentGet ==
    /\ pc = "built"
    /\ \E header \in Headers :
         /\ query' = [on |-> "document", key |-> header]
         /\ found' = [find |-> DesktopFile_find(doc, header),
                      get |-> DesktopFile_get(doc, header)]
    /\ pc' = "got"
    /\ UNCHANGED <<input, doc, parsed, out>>

\* document.find_mut(header) and document.get_mut(header)
DocumentGetMut ==
    /\ pc = "built"
    /\ \E header \in Headers :
         /\ query' = [on |-> "document", key |-> header]
         /\ found' = [find |-> DesktopFile_find_mut(doc, header),
                      get |-> DesktopFile_get_mut(doc, header)]
    /\ pc' = "got mut"
    /\ UNCHANGED <<input, doc, parsed, out>>

\* group.find(key) and group.get(key) on a group of the document
GroupGet ==
    /\ pc = "built"
    /\ \E i \in GroupPositions, key \in Keys :
         /\ query' = [on |-> "group", group |-> i, key |-> key]
         /\ found' = [find |-> Group_find(doc.content[i].group, key),
                      get |-> Group_get(doc.content[i].group, key)]
    /\ pc' = "got"
    /\ UNCHANGED <<input, doc, parsed, out>>

\* group.find_mut(key) and group.get_mut(key) on a group of the document
GroupGetMut ==
    /\ pc = "built"
    /\ \E i \in GroupPositions, key \in Keys :
         /\ query' = [on |-> "group", group |-> i, key |-> key]
         /\ found' = [find |-> Group_find_mut(doc.content[i].group, key),
                      get |-> Group_get_mut(doc.content[i].group, key)]
    /\ pc' = "got mut"
    /\ UNCHANGED <<input, doc, parsed, out>>

NextModel ==
    \/ DocumentToString \/ GroupToString
    \/ DocumentGet \/ DocumentGetMut \/ GroupGet \/ GroupGetMut

SpecModel == InitModel /\ [][NextModel]_vars

\* the positions, in the collection the query is on, of the items it asks for
AskedAt ==
    IF query.on = "document" THEN GroupsAt(doc, query.key)
    ELSE EntriesAt(doc.content[query.group].group, query.key)

\* the item at position j of the collection the query is on
AskedItem(j) ==
    IF query.on = "document" THEN doc.content[j].group
    ELSE doc.content[query.group].group.content[j].content

\* get and get_mut gave Ok with the item find and find_mut gave (the first
\* with the key: the item itself for get, its position for get_mut), or
\* NotFound with the key where they gave None
GetWrapsFind ==
    /\ found.get.ok = IsSome(found.find)
    /\ IsSome(found.find) = (AskedAt # {})
    /\ found.get.ok =>
           /\ found.get.value = Unwrap(found.find)
           /\ found.get.value = IF pc = "got" THEN AskedItem(Min(AskedAt)) ELSE Min(AskedAt)
    /\ ~found.get.ok =>
           /\ found.get.error.kind = "NotFound"
           /\ found.get.error.key = query.key

\* C8: get and get_mut on a group or a document return Ok with the item that
\* find and find_mut return when there is one, and otherwise NotFound with
\* the key asked for; the collection is the same after as before.
C8_GetWrapsFind ==
    /\ [](pc \in {"got", "got mut"} => GetWrapsFind)
    /\ [][pc' \in {"got", "got mut"} => doc' = doc]_vars

\* C8 witness: get_mut on a group gave NotFound with the key in a document
\* that has groups with entries
C8_Witness ==
    /\ pc = "got mut" /\ query.on = "group"
    /\ ~found.get.ok /\ found.get.error.key = query.key
    /\ doc.content[query.group].group.content # <<>>

\* the text of a comment: '# ' and the text, or the blank as stored
CommentText(c) == IF c.kind = "Text" THEN <<HASH, SP>> \o c.s ELSE c.s

\* the texts of the items, each followed by a line feed if it is not a blank
\* and not the last
Joined(items, ItemText(_)) ==
    Concat([k \in 1..Len(items) |->
               ItemText(items[k])
               \o (IF k < Len(items)
                      /\ ~(items[k].tag = "Comment" /\ items[k].comment.kind = "Blank")
                   THEN <<LF>> ELSE <<>>)])

\* the text of a group: '[' header ']', a line feed, and its entries joined
GroupText(g) ==
    <<LBRACKET>> \o g.header \o <<RBRACKET, LF>>
    \o Joined(g.content,
              LAMBDA e : IF e.tag = "Content" THEN EntryText(e.content)
                         ELSE CommentText(e.comment))

\* the text of a document: its top-level items joined
DocumentText(d) ==
    Joined(d.content,
           LAMBDA t : IF t.tag = "Group" THEN GroupText(t.group)
                      ELSE CommentText(t.comment))

\* C9: a document and a group's entries are written in stored order, with one
\* line feed after an item iff it is not a Blank and not the last of its list;
\* a group is '[header]', a line feed, and its entries under the same rule.
C9_SerializerJoinRule ==
    pc = "written" =>
        out = IF query.of = "document" THEN DocumentText(doc)
              ELSE GroupText(doc.content[query.group].group)

\* C9 witness: a document written whose group holds a blank and then another
\* entry
C9_Witness ==
    /\ pc = "written" /\ query.of = "document"
    /\ \E i \in GroupPositions :
         LET c == doc.content[i].group.content
         IN  Len(c) >= 2 /\ is_blank(c[1]) /\ ~is_blank(c[2])

(***************************************************************************)
(* The trash helper (src/helpers/trash.rs): TrashFile and its conversions  *)
(* from and to DesktopFile.                                                *)
(***************************************************************************)

\* GROUP_NAME: "Trash Info"
GROUP_NAME == <<84, 114, 97, 115, 104, SP, 73, 110, 102, 111>>

\* "Path" and "DeletionDate"
PathKey == <<80, 97, 116, 104>>
DeletionDateKey == <<68, 101, 108, 101, 116, 105, 111, 110, 68, 97, 116, 101>>

\* time::PrimitiveDateTime, to the second
PrimitiveDateTime(year, month, day, hour, minute, second) ==
    [year |-> year, month |-> month, day |-> day,
     hour |-> hour, minute |-> minute, second |-> second]

\* the days of a month of the proleptic Gregorian calendar
DaysInMonth(year, month) ==
    IF month = 2
    THEN (IF year % 4 = 0 /\ (year % 100 # 0 \/ year % 400 = 0) THEN 29 ELSE 28)
    ELSE IF month \in {4, 6, 9, 11} THEN 30 ELSE 31

\* n >= 0 as `width` decimal digits, zero-padded
RECURSIVE Digits(_, _)
Digits(n, width) ==
    IF width = 0 THEN <<>> ELSE Append(Digits(n \div 10, width - 1), 48 + (n % 10))

\* the date written with the hour on the 12-hour clock ([hour repr:12])
FormatDate_hour12(d) ==
    (IF d.year < 0 THEN <<DASH>> ELSE <<>>)
    \o Digits(IF d.year < 0 THEN -d.year ELSE d.year, 4) \o <<DASH>>
    \o Digits(d.month, 2) \o <<DASH>> \o Digits(d.day, 2) \o <<84>>
    \o Digits(IF d.hour % 12 = 0 THEN 12 ELSE d.hour % 12, 2)
    \o <<58>> \o Digits(d.minute, 2) \o <<58>> \o Digits(d.second, 2)

\* deletion_date.format(&DATE_FORMAT):
\* "[year]-[month]-[day]T[hour repr:24]:[minute]:[second]"
FormatDate(d) ==
    (IF d.year < 0 THEN <<DASH>> ELSE <<>>)
    \o Digits(IF d.year < 0 THEN -d.year ELSE d.year, 4) \o <<DASH>>
    \o Digits(d.month, 2) \o <<DASH>> \o Digits(d.day, 2) \o <<84>>
    \o Digits(d.hour, 2) \o <<58>> \o Digits(d.minute, 2) \o <<58>> \o Digits(d.second, 2)

\* the number the decimal digits s spell, -1 if s is not all digits
RECURSIVE Number(_)
Number(s) ==
    IF s = <<>> THEN 0
    ELSE IF s[Len(s)] \notin 48..57 \/ Number(Take(s, Len(s) - 1)) < 0 THEN -1
    ELSE 10 * Number(Take(s, Len(s) - 1)) + (s[Len(s)] - 48)

\* a parse that takes any day from 01 to 31 in any month
ParseDate_any_day(s) ==
    LET signed == s # <<>> /\ s[1] \in {43, DASH}
        t == IF signed THEN Tail(s) ELSE s
        year == Number(SubSeq(t, 1, 4))
    IN  IF /\ Len(t) = 19
           /\ t[5] = DASH /\ t[8] = DASH /\ t[11] = 84 /\ t[14] = 58 /\ t[17] = 58
           /\ year >= 0 /\ Number(SubSeq(t, 6, 7)) \in 1..12
           /\ Number(SubSeq(t, 9, 10)) \in 1..31
           /\ Number(SubSeq(t, 12, 13)) \in 0..23
           /\ Number(SubSeq(t, 15, 16)) \in 0..59
           /\ Number(SubSeq(t, 18, 19)) \in 0..59
        THEN Some(PrimitiveDateTime(IF signed /\ s[1] = DASH THEN -year ELSE year,
                                    Number(SubSeq(t, 6, 7)), Number(SubSeq(t, 9, 10)),
                                    Number(SubSeq(t, 12, 13)), Number(SubSeq(t, 15, 16)),
                                    Number(SubSeq(t, 18, 19))))
        ELSE None

\* PrimitiveDateTime::parse(s, &DATE_FORMAT): an optional sign, four digits of
\* year, and two digits each of month, day, hour, minute, second between their
\* separators, nothing after them, and all of them in range
ParseDate(s) ==
    LET signed == s # <<>> /\ s[1] \in {43, DASH}
        t == IF signed THEN Tail(s) ELSE s
        year == Number(SubSeq(t, 1, 4))
        month == Number(SubSeq(t, 6, 7))
        day == Number(SubSeq(t, 9, 10))
        hour == Number(SubSeq(t, 12, 13))
        minute == Number(SubSeq(t, 15, 16))
        second == Number(SubSeq(t, 18, 19))
    IN  IF /\ Len(t) = 19
           /\ t[5] = DASH /\ t[8] = DASH /\ t[11] = 84 /\ t[14] = 58 /\ t[17] = 58
           /\ year >= 0 /\ month \in 1..12
           /\ day >= 1 /\ day <= DaysInMonth(year, month)
           /\ hour \in 0..23 /\ minute \in 0..59 /\ second \in 0..59
        THEN Some(PrimitiveDateTime(IF signed /\ s[1] = DASH THEN -year ELSE year,
                                    month, day, hour, minute, second))
        ELSE None

\* struct TrashFile
TrashFile(desktop_file, path, deletion_date) ==
    [desktop_file |-> desktop_file, path |-> path, deletion_date |-> deletion_date]

\* Error::DateParsing(time::error::Parse)
DateParsing == [kind |-> "DateParsing"]

\* a panic of the thread instead of a Result: `values[0]` on an empty Vec
Panic(message) == [ok |-> FALSE, value |-> <<>>, error |-> <<>>, panic |-> message]

\* a write that pushes a new entry whether or not one with `key` exists
with_entry_pushed(g, key, value) ==
    [g EXCEPT !.content = Append(@, EntryContent(ContentEntry(key, <<value>>, None)))]

\* the first entry with `key` of group g gets the values <<value>>; with no
\* such entry, a new entry with no locale is pushed at the end
with_entry(g, key, value) ==
    IF IsSome(Group_find_mut(g, key))
    THEN [g EXCEPT !.content[Unwrap(Group_find_mut(g, key))].content.values = <<value>>]
    ELSE [g EXCEPT !.content = Append(@, EntryContent(ContentEntry(key, <<value>>, None)))]

\* impl TryFrom<TrashFile> for DesktopFile
DesktopFile_try_from(trash_file) ==
    LET desktop_file == trash_file.desktop_file
        group == DesktopFile_find_mut(desktop_file, GROUP_NAME)
        raw_date == FormatDate(trash_file.deletion_date)
    IN  IF IsSome(group)
        THEN ResultOk([desktop_file EXCEPT
                 !.content[Unwrap(group)].group =
                     with_entry(with_entry(@, PathKey, trash_file.path),
                                DeletionDateKey, raw_date)])
        ELSE ResultOk([desktop_file EXCEPT
                 !.content = Append(@, TopGroup(Group(GROUP_NAME,
                     <<EntryContent(ContentEntry(PathKey, <<trash_file.path>>, None)),
                       EntryContent(ContentEntry(DeletionDateKey, <<raw_date>>, None))>>)))])

\* impl TryFrom<DesktopFile> for TrashFile, from the group found on
TrashFile_from_group(desktop, group) ==
    LET raw_date == Group_get(group, DeletionDateKey)
        raw_path == Group_get(group, PathKey)
    IN  IF ~raw_date.ok THEN ResultErr(raw_date.error)
        ELSE IF ~raw_path.ok THEN ResultErr(raw_path.error)
        ELSE IF raw_date.value.values = <<>> THEN Panic("index out of bounds")
        ELSE IF ~IsSome(ParseDate(raw_date.value.values[1])) THEN ResultErr(DateParsing)
        ELSE IF raw_path.value.values = <<>> THEN Panic("index out of bounds")
        ELSE ResultOk(TrashFile(desktop, raw_path.value.values[1],
                                Unwrap(ParseDate(raw_date.value.values[1]))))

\* impl TryFrom<DesktopFile> for TrashFile
TrashFile_try_from(desktop) ==
    IF ~DesktopFile_get(desktop, GROUP_NAME).ok
    THEN ResultErr(DesktopFile_get(desktop, GROUP_NAME).error)
    ELSE TrashFile_from_group(desktop, DesktopFile_get(desktop, GROUP_NAME).value)

(***************************************************************************)
(* The trash wrapper built in the program: a TrashFile literal over any    *)
(* document, as the module's own tests build it, converted to a document   *)
(* and back.                                                               *)
(***************************************************************************)

MaxTrashSize == 3

\* "2025-08-12T00:14:20"
Stamp == <<50, 48, 50, 53, DASH, 48, 56, DASH, 49, 50, 84,
           48, 48, 58, 49, 52, 58, 50, 48>>

\* the top-level items pushed: "# c", [Trash Info], [G]
TrashTopPool ==
    {TopComment(Text(<<99>>)),
     TopGroup(Group(GROUP_NAME, <<>>)),
     TopGroup(Group(<<71>>, <<>>))}

\* the entries pushed: "# c", Path[fr]=p;q, Path with no value,
\* DeletionDate=2025-08-12T00:14:20, DeletionDate[fr]=x, K=a
TrashEntryItems ==
    {EntryComment(Text(<<99>>)),
     EntryContent(ContentEntry(PathKey, << <<112>>, <<113>> >>, Some(<<102, 114>>))),
     EntryContent(ContentEntry(PathKey, <<>>, None)),
     EntryContent(ContentEntry(DeletionDateKey, <<Stamp>>, None)),
     EntryContent(ContentEntry(DeletionDateKey, << <<120>> >>, Some(<<102, 114>>))),
     EntryContent(ContentEntry(<<75>>, << <<97>> >>, None))}

\* the contents of the documents of at most n items, made by pushes
RECURSIVE TrashContents(_)
TrashContents(n) ==
    IF n = 0 THEN {<<>>}
    ELSE LET smaller == TrashContents(n - 1)
         IN  smaller
             \cup {Append(c, t) : c \in smaller, t \in TrashTopPool}
             \cup {[c EXCEPT ![Len(c)].group.content = Append(@, e)] :
                      c \in {x \in smaller : x # <<>> /\ x[Len(x)].tag = "Group"},
                      e \in TrashEntryItems}

\* the paths set: "/n" and the empty path
TrashPaths == {<<47, 110>>, <<>>}

\* the deletion dates set: a date before year 0, the first and the last
\* second of the years written unsigned, and a leap day
TrashDates ==
    {PrimitiveDateTime(-44, 3, 15, 11, 0, 0),
     PrimitiveDateTime(0, 1, 1, 0, 0, 0),
     PrimitiveDateTime(2024, 2, 29, 12, 30, 5),
     PrimitiveDateTime(9999, 12, 31, 23, 59, 59)}

InitWrapper ==
    /\ doc \in {DesktopFile(c) : c \in TrashContents(MaxTrashSize)}
    /\ found \in {ResultOk(TrashFile(doc, p, d)) : p \in TrashPaths, d \in TrashDates}
    /\ pc = "wrapped"
    /\ input = <<>>
    /\ parsed = NotRun
    /\ out = <<>>
    /\ query = <<>>

\* DesktopFile::try_from(trash_file)
DesktopFromTrash ==
    /\ pc = "wrapped"
    /\ doc' = DesktopFile_try_from(found.value).value
    /\ pc' = "converted"
    /\ UNCHANGED <<input, parsed, out, query, found>>

\* TrashFile::try_from(desktop)
TrashFromDesktop ==
    /\ pc \in {"parsed", "converted"}
    /\ found' = TrashFile_try_from(doc)
    /\ pc' = IF "panic" \in DOMAIN found' THEN "panicked"
             ELSE IF found'.ok THEN "wrapped" ELSE "refused"
    /\ UNCHANGED <<input, doc, parsed, out, query>>

NextWrapper == DesktopFromTrash \/ TrashFromDesktop

SpecWrapper == InitWrapper /\ [][NextWrapper]_vars

\* entry j of group g with its values replaced by the one value v
Revalued(g, j, v) == [g.content[j] EXCEPT !.content.values = <<v>>]

\* group `new` is group `old` with the wrapper's fields written: the first
\* entry of key `key` has the one value v and is otherwise as it was, or, with
\* no such entry, a new one with no locale stands at position `at`
FieldWritten(old, new, key, v, at) ==
    IF EntriesAt(old, key) # {}
    THEN new.content[Min(EntriesAt(old, key))] = Revalued(old, Min(EntriesAt(old, key)), v)
    ELSE new.content[at] = EntryContent(ContentEntry(key, <<v>>, None))

\* the frame of the write into group `old`, giving `new`
GroupFrame(old, new, path, raw_date) ==
    LET n == Len(old.content)
        addedPath == IF EntriesAt(old, PathKey) = {} THEN 1 ELSE 0
        addedDate == IF EntriesAt(old, DeletionDateKey) = {} THEN 1 ELSE 0
    IN  /\ new.header = old.header
        /\ Len(new.content) = n + addedPath + addedDate
        /\ FieldWritten(old, new, PathKey, path, n + 1)
        /\ FieldWritten(old, new, DeletionDateKey, raw_date, n + addedPath + 1)
        /\ \A j \in 1..n :
              (/\ j \notin EntriesAt(old, PathKey) \/ j # Min(EntriesAt(old, PathKey))
               /\ j \notin EntriesAt(old, DeletionDateKey)
                     \/ j # Min(EntriesAt(old, DeletionDateKey)))
              => new.content[j] = old.content[j]

\* the frame of DesktopFile::try_from(w), giving document `new`
DocumentFrame(w, new) ==
    LET old == w.desktop_file
        raw_date == FormatDate(w.deletion_date)
    IN  IF GroupsAt(old, GROUP_NAME) = {}
        THEN new.content = Append(old.content, TopGroup(Group(GROUP_NAME,
                 <<EntryContent(ContentEntry(PathKey, <<w.path>>, None)),
                   EntryContent(ContentEntry(DeletionDateKey, <<raw_date>>, None))>>)))
        ELSE LET i == Min(GroupsAt(old, GROUP_NAME))
             IN  /\ Len(new.content) = Len(old.content)
                 /\ \A k \in 1..Len(old.content) :
                       k # i => new.content[k] = old.content[k]
                 /\ new.content[i].tag = "Group"
                 /\ GroupFrame(old.content[i].group, new.content[i].group,
                               w.path, raw_date)

\* C11: converting a wrapper to a document rewrites only the values of the
\* first Path and the first DeletionDate entry of the first "Trash Info"
\* group; a missing entry is appended to that group, Path before
\* DeletionDate; with no such group, a new group with Path then DeletionDate
\* is appended to the document; everything else is unchanged.
C11_WriteFrame ==
    pc = "converted" => DocumentFrame(found.value, doc)

\* C11: a converted wrapper whose document had a group before the first
\* "Trash Info" group, and in that group one Path entry and no DeletionDate
C11_Witness ==
    /\ pc = "converted"
    /\ LET old == found.value.desktop_file
       IN  /\ Len(old.content) = 2
           /\ old.content[1].tag = "Group" /\ old.content[1].group.header = <<71>>
           /\ old.content[2].tag = "Group"
           /\ old.content[2].group.header = GROUP_NAME
           /\ Len(old.content[2].group.content) = 1
           /\ EntriesAt(old.content[2].group, PathKey) = {1}
           /\ Len(doc.content[2].group.content) = 2
           /\ found.value.path # <<>>
           /\ doc.content[2].group.content[1].content.values = <<found.value.path>>

\* C20: set-then-get of the wrapper: TrashFile::try_from applied to the
\* document DesktopFile::try_from(t) gave succeeds, with the path and the
\* deletion date of t, whatever the document of t holds.
C20_SetThenGet ==
    [][(pc = "converted" /\ pc' # "converted")
          => /\ found'.ok
             /\ found'.value.path = found.value.path
             /\ found'.value.deletion_date = found.value.deletion_date
             /\ found'.value.desktop_file = doc]_vars

\* C20: a wrapper read back from a converted document that holds two
\* "Trash Info" groups, the first one with the written Path and DeletionDate
C20_Witness ==
    /\ pc = "wrapped"
    /\ found.value.desktop_file = doc
    /\ Cardinality(GroupsAt(doc, GROUP_NAME)) = 2
    /\ found.value.path = <<47, 110>>
    /\ found.value.deletion_date = PrimitiveDateTime(9999, 12, 31, 23, 59, 59)
    /\ LET g == doc.content[Min(GroupsAt(doc, GROUP_NAME))].group
       IN  /\ EntriesAt(g, PathKey) # {}
           /\ g.content[Min(EntriesAt(g, PathKey))].content.values = << <<47, 110>> >>
           /\ EntriesAt(g, DeletionDateKey) # {}

(***************************************************************************)
(* Trash files as text: parsed, converted to the wrapper and back.         *)
(***************************************************************************)

MaxTrashPieces == 4

\* "[Trash Info]\n", "[G]\n", "Path=p\n", "Path=\n",
\* "DeletionDate=2025-08-12T00:14:20\n", "DeletionDate=2025-02-30T00:00:00\n",
\* "DeletionDate=\n", "# c\n", and a line whose key is e-circumflex in UTF-8
TrashPieces ==
    {<<LBRACKET>> \o GROUP_NAME \o <<RBRACKET, LF>>,
     <<LBRACKET, 71, RBRACKET, LF>>,
     PathKey \o <<EQ, 112, LF>>,
     PathKey \o <<EQ, LF>>,
     DeletionDateKey \o <<EQ>> \o Stamp \o <<LF>>,
     DeletionDateKey \o <<EQ, 50, 48, 50, 53, DASH, 48, 50, DASH, 51, 48, 84,
                          48, 48, 58, 48, 48, 58, 48, 48, LF>>,
     DeletionDateKey \o <<EQ, LF>>,
     <<HASH, SP, 99, LF>>,
     <<195, 170, EQ, 49, LF>>}

\* the texts of at most n pieces
RECURSIVE TrashTexts(_)
TrashTexts(n) ==
    IF n = 0 THEN {<<>>}
    ELSE LET shorter == TrashTexts(n - 1)
         IN  shorter \cup {t \o p : t \in shorter, p \in TrashPieces}

InitTrashText ==
    /\ input \in TrashTexts(MaxTrashPieces)
    /\ pc = "start"
    /\ doc = DesktopFile(<<>>)
    /\ parsed = NotRun
    /\ out = <<>>
    /\ query = <<>>
    /\ found = <<>>

NextTrashText == TryFrom \/ TrashFromDesktop \/ DesktopFromTrash

SpecTrashText == InitTrashText /\ [][NextTrashText]_vars

\* the two-digit number at positions i, i + 1 of s
TwoDigits(s, i) == 10 * (s[i] - 48) + (s[i + 1] - 48)

\* the four-digit number at positions 1..4 of s
YearDigits(s) == 100 * TwoDigits(s, 1) + TwoDigits(s, 3)

\* s is an unsigned timestamp YYYY-MM-DDTHH:MM:SS of a date that exists
IsTimestamp(s) ==
    /\ Len(s) = 19
    /\ \A i \in {1, 2, 3, 4, 6, 7, 9, 10, 12, 13, 15, 16, 18, 19} : s[i] \in 48..57
    /\ s[5] = DASH /\ s[8] = DASH /\ s[11] = 84 /\ s[14] = 58 /\ s[17] = 58
    /\ TwoDigits(s, 6) \in 1..12
    /\ TwoDigits(s, 9) \in 1..DaysInMonth(YearDigits(s), TwoDigits(s, 6))
    /\ TwoDigits(s, 12) < 24 /\ TwoDigits(s, 15) < 60 /\ TwoDigits(s, 18) < 60

\* the date an unsigned timestamp names
DateOf(s) ==
    PrimitiveDateTime(YearDigits(s), TwoDigits(s, 6), TwoDigits(s, 9),
                      TwoDigits(s, 12), TwoDigits(s, 15), TwoDigits(s, 18))

\* the conversion has run on doc
Converted == pc \in {"wrapped", "refused", "panicked"}

\* the outcome of the conversion of a document whose first "Trash Info" group
\* is g
OutcomeOn(g) ==
    LET paths == EntriesAt(g, PathKey)
        dates == EntriesAt(g, DeletionDateKey)
        path == g.content[Min(paths)].content.values
        date == g.content[Min(dates)].content.values
    IN  IF paths = {} \/ dates = {}
        THEN /\ ~found.ok
             /\ found.error \in
                   {NotFound(k) : k \in {k \in {PathKey, DeletionDateKey} :
                                            EntriesAt(g, k) = {}}}
        ELSE /\ found.ok => /\ path # <<>> /\ date # <<>>
                            /\ IsTimestamp(date[1])
                            /\ found.value = TrashFile(doc, path[1], DateOf(date[1]))
             /\ (date # <<>> /\ ~IsTimestamp(date[1])) => found = ResultErr(DateParsing)
             /\ (date # <<>> /\ IsTimestamp(date[1]) /\ path # <<>>) => found.ok

\* C12: the conversion of a document to the wrapper succeeds only if the
\* first "Trash Info" group holds a Path and a DeletionDate entry; without
\* the group or one of the entries it fails with NotFound naming the missing
\* key, with a timestamp out of the format it fails with DateParsing; on
\* success the path and the date are those of the first Path and the first
\* DeletionDate entry.
C12_ConversionOutcome ==
    Converted =>
        IF GroupsAt(doc, GROUP_NAME) = {}
        THEN found = ResultErr(NotFound(GROUP_NAME))
        ELSE OutcomeOn(doc.content[Min(GroupsAt(doc, GROUP_NAME))].group)

\* C12: a wrapper read from the text "[Trash Info]", DeletionDate=<stamp>,
\* Path=p, Path= : the first of the two Path entries gives the path
C12_Witness ==
    /\ pc = "wrapped"
    /\ input = <<LBRACKET>> \o GROUP_NAME \o <<RBRACKET, LF>>
               \o DeletionDateKey \o <<EQ>> \o Stamp \o <<LF>>
               \o PathKey \o <<EQ, 112, LF>> \o PathKey \o <<EQ, LF>>
    /\ found.ok
    /\ found.value.path = <<112>>
    /\ found.value.deletion_date = PrimitiveDateTime(2025, 8, 12, 0, 14, 20)

\* C13: the conversion of a parsed document always ends with a wrapper or a
\* typed error (NotFound, DateParsing), never with an abort.
C13_TypedResult ==
    /\ pc # "panicked"
    /\ Converted => (found.ok \/ found.error.kind \in {"NotFound", "DateParsing"})

\* the keys of the content entries of document d
KeysOf(d) ==
    UNION {{d.content[i].group.content[j].content.key :
               j \in {j \in 1..Len(d.content[i].group.content) :
                         d.content[i].group.content[j].tag = "Content"}} :
           i \in {i \in 1..Len(d.content) : d.content[i].tag = "Group"}}

\* C18: in a parsed document, and after the conversions applied to it, the
\* key of every content entry holds only ASCII alphanumerics and '-'.
C18_KeysAsciiAlnumDash ==
    pc \notin {"start", "failed"} =>
        \A key \in KeysOf(doc) : \A k \in 1..Len(key) :
            key[k] \in (48..57) \cup (65..90) \cup (97..122) \cup {DASH}

(***************************************************************************)
(* parse_entry on single lines.                                            *)
(***************************************************************************)

MaxEntryLen == 5

\* the bytes of the lines: H, o, space, '[', ']', '='
EntryBytes == {72, 111, SP, LBRACKET, RBRACKET, EQ}

\* the texts of at most n of these bytes
RECURSIVE EntryTexts(_)
EntryTexts(n) ==
    IF n = 0 THEN {<<>>}
    ELSE LET shorter == EntryTexts(n - 1)
         IN  shorter \cup {Append(t, b) : t \in shorter, b \in EntryBytes}

InitEntry ==
    /\ input \in EntryTexts(MaxEntryLen)
    /\ pc = "start"
    /\ doc = DesktopFile(<<>>)
    /\ parsed = NotRun
    /\ out = <<>>
    /\ query = <<>>
    /\ found = <<>>

\* parse_entry(input)
ParseEntry ==
    /\ pc = "start"
    /\ parsed' = parse_entry(input)
    /\ pc' = "parse_entry"
    /\ UNCHANGED <<input, doc, out, query, found>>

NextEntry == ParseEntry

SpecEntry == InitEntry /\ [][NextEntry]_vars

\* the key characters of the lines: H, o
KeyChars == {72, 111}

\* the length of the longest run of bytes of S in s from position `from`
RunLen(s, from, S) ==
    CHOOSE n \in 0..(Len(s) - from + 1) :
        /\ \A k \in from..(from + n - 1) : s[k] \in S
        /\ from + n <= Len(s) => s[from + n] \notin S

\* the position after the bracketed locale of s that starts at position
\* `from`, and `from` itself when no well-formed one starts there
AfterLocale(s, from) ==
    LET inside == RunLen(s, from + 1, Byte \ {LBRACKET, RBRACKET})
    IN  IF /\ from <= Len(s) /\ s[from] = LBRACKET
           /\ from + inside + 1 <= Len(s) /\ s[from + inside + 1] = RBRACKET
        THEN from + inside + 2
        ELSE from

\* the position of s where '=' is expected: after the key, an optional
\* bracketed locale and any spaces
EqExpectedAt(s) ==
    LET afterLocale == AfterLocale(s, RunLen(s, 1, KeyChars) + 1)
    IN  afterLocale + RunLen(s, afterLocale, {SP, TAB})

\* s starts with a key token and has a further key character where '=' is
\* expected: after spaces, or after a bracketed pseudo-locale
KeySplit(s) ==
    /\ RunLen(s, 1, KeyChars) >= 1
    /\ EqExpectedAt(s) <= Len(s)
    /\ s[EqExpectedAt(s)] \in KeyChars

\* C14: parse_entry fails on a line whose key token is followed by spaces or
\* by a bracketed pseudo-locale and then by further key characters; no entry
\* is produced and the remainder of the error starts at the byte where '='
\* was expected, with the error kind of char.
C14_RejectionCases ==
    (pc = "parse_entry" /\ KeySplit(input)) =>
        /\ ~parsed.ok
        /\ parsed.out = <<>>
        /\ parsed.rest = SubSeq(input, EqExpectedAt(input), Len(input))
        /\ parsed.kind = "Char"

\* C14: the line "H o=o" refused with the remainder "o=o"
C14_Witness ==
    /\ pc = "parse_entry"
    /\ input = <<72, SP, 111, EQ, 111>>
    /\ KeySplit(input)
    /\ parsed = Err(<<111, EQ, 111>>, "Char")

(***************************************************************************)
(* The ASCII sanitizer (src/helpers/mod.rs): AsciiString::try_from.        *)
(***************************************************************************)

\* struct AsciiString
AsciiString(value) == [value |-> value]

\* Error::NotAscii(char), the char as its code point
NotAscii(char) == [kind |-> "NotAscii", char |-> char]

\* a control test that knows the C0 controls only
is_control_c0(char) == char \in 0..31

\* char::is_control: the general category Cc
is_control(char) == char \in (0..31) \cup (127..159)

\* the loop over value.chars(): the first char that is not ASCII or is a
\* control, None when the loop ends without one
RECURSIVE first_rejected(_)
first_rejected(value) ==
    IF value = <<>> THEN None
    ELSE IF \/ ~IsAscii(Scalar(Take(value, Utf8CharLen(value))))
            \/ is_control(Scalar(Take(value, Utf8CharLen(value))))
         THEN Some(Scalar(Take(value, Utf8CharLen(value))))
         ELSE first_rejected(Drop(value, Utf8CharLen(value)))

\* impl TryFrom<&str> for AsciiString
AsciiString_try_from(value) ==
    IF IsSome(first_rejected(value))
    THEN ResultErr(NotAscii(Unwrap(first_rejected(value))))
    ELSE ResultOk(AsciiString(value))

MaxChars == 3

\* the characters of the strings, each with its UTF-8 bytes: A, ~, space,
\* tab, NUL, DEL, U+0085 (next line), U+00E9 (e acute), U+20AC (euro sign)
CharPool ==
    {[char |-> 65, bytes |-> <<65>>], [char |-> 126, bytes |-> <<126>>],
     [char |-> 32, bytes |-> <<SP>>], [char |-> 9, bytes |-> <<TAB>>],
     [char |-> 0, bytes |-> <<0>>], [char |-> 127, bytes |-> <<127>>],
     [char |-> 133, bytes |-> <<194, 133>>], [char |-> 233, bytes |-> <<195, 169>>],
     [char |-> 8364, bytes |-> <<226, 130, 172>>]}

\* the strings of at most n characters
RECURSIVE Strings(_)
Strings(n) ==
    IF n = 0 THEN {<<>>}
    ELSE LET shorter == Strings(n - 1)
         IN  shorter \cup {s \o c.bytes : s \in shorter, c \in CharPool}

InitAscii ==
    /\ input \in Strings(MaxChars)
    /\ pc = "start"
    /\ doc = DesktopFile(<<>>)
    /\ parsed = NotRun
    /\ out = <<>>
    /\ query = <<>>
    /\ found = <<>>

\* AsciiString::try_from(input)
AsciiTryFrom ==
    /\ pc = "start"
    /\ found' = AsciiString_try_from(input)
    /\ pc' = "sanitized"
    /\ UNCHANGED <<input, doc, parsed, out, query>>

NextAscii == AsciiTryFrom

SpecAscii == InitAscii /\ [][NextAscii]_vars

\* the positions of s whose byte is not that of a printable ASCII character
Offending(s) == {i \in 1..Len(s) : s[i] \notin 32..126}

\* the character of the pool whose bytes stand at position i of s
CharStartingAt(s, i) ==
    (CHOOSE c \in CharPool : SubSeq(s, i, i + Len(c.bytes) - 1) = c.bytes).char

\* C15: AsciiString::try_from(s) succeeds exactly when every character of s
\* is ASCII and not a control; then the wrapped string is s; otherwise the
\* error is NotAscii with the first offending character of s.
C15_AsciiSanitizer ==
    pc = "sanitized" =>
        /\ found.ok <=> Offending(input) = {}
        /\ found.ok => found.value = AsciiString(input)
        /\ ~found.ok =>
              found.error = NotAscii(CharStartingAt(input, Min(Offending(input))))

\* C15: "A", DEL, e acute refused for DEL, the first of its two offenders
C15_Witness ==
    /\ pc = "sanitized"
    /\ input = <<65, 127, 195, 169>>
    /\ found = ResultErr(NotAscii(127))

(***************************************************************************)
(* Parse, render, parse again.                                             *)
(***************************************************************************)

\* DesktopFile::try_from(file.to_string().as_str())
Reparse ==
    /\ pc = "rendered"
    /\ parsed' = try_from(out)
    /\ pc' = "reparsed"
    /\ UNCHANGED <<input, doc, out, query, found>>

NextCycle == TryFrom \/ to_string \/ Reparse

SpecCycle == Init /\ [][NextCycle]_vars

\* C16: the text rendered from a parsed document parses to that document.
C16_RenderThenParse ==
    pc = "reparsed" => (parsed.ok /\ parsed.out = doc)

(***************************************************************************)
(* '#' lines: parsed as a Text comment and written back.                   *)
(***************************************************************************)

MaxCommentLen == 3

\* the '#' lines with at most n bytes of space, tab, c, '#' before the '\n'
RECURSIVE HashBodies(_)
HashBodies(n) ==
    IF n = 0 THEN {<<>>}
    ELSE LET shorter == HashBodies(n - 1)
         IN  shorter \cup {Append(b, c) : b \in shorter, c \in {SP, TAB, 99, HASH}}

InitComment ==
    /\ input \in {<<HASH>> \o b \o <<LF>> : b \in HashBodies(MaxCommentLen)}
    /\ pc = "start"
    /\ doc = DesktopFile(<<>>)
    /\ parsed = NotRun
    /\ out = <<>>
    /\ query = <<>>
    /\ found = <<>>

\* parse_text_comment_entry(input)
ParseTextComment ==
    /\ pc = "start"
    /\ parsed' = parse_text_comment_entry(input)
    /\ pc' = IF parsed'.ok THEN "comment" ELSE "failed"
    /\ UNCHANGED <<input, doc, out, query, found>>

\* comment.to_string()
CommentToString ==
    /\ pc = "comment"
    /\ out' = CommentEntryFmt(parsed.out)
    /\ pc' = "comment written"
    /\ UNCHANGED <<input, doc, parsed, query, found>>

NextComment == ParseTextComment \/ CommentToString

SpecComment == InitComment /\ [][NextComment]_vars

\* the content of the '#' line l without the '#', the one space after it if
\* there is one, and the final '\n'
AfterHashAndOneSpace(l) ==
    IF Len(l) >= 3 /\ l[2] = SP
    THEN SubSeq(l, 3, Len(l) - 1)
    ELSE SubSeq(l, 2, Len(l) - 1)

\* C17: a '#' line is stored as a Text comment with the content of the line
\* less the '#' and the single space after it, if any; the comment is written
\* as "# " and the stored text.
C17_OneSpaceStripped ==
    /\ pc # "failed"
    /\ pc \in {"comment", "comment written"} =>
          parsed.out = Text(AfterHashAndOneSpace(input))
    /\ pc = "comment written" => out = <<HASH, SP>> \o parsed.out.s

(***************************************************************************)
(* The place of comments in a parsed document.                             *)
(***************************************************************************)

\* the part of x the parser consumed
Consumed(x) == SubSeq(x, 1, Len(x) - Len(Unconsumed(x)))

\* the number of '#' lines of x that start at a position of set S: a '#' with
\* nothing but spaces and tabs before it on its line
HashCount(x, S) ==
    Cardinality({i \in S \cap (1..Len(x)) :
        /\ x[i] = HASH
        /\ \A k \in 1..(i - 1) :
              (\A m \in k..(i - 1) : x[m] # LF) => x[k] \in {SP, TAB}})

\* the position of the first '[' of x, Len(x) + 1 if there is none
FirstBracket(x) == Min({i \in 1..Len(x) : x[i] = LBRACKET} \cup {Len(x) + 1})

\* the Text comments among the top-level items of d
TopLevelTexts(d) ==
    SelectSeq(d.content, LAMBDA t : t.tag = "Comment" /\ t.comment.kind = "Text")

\* the number of Text comments among the entries of the groups of d
RECURSIVE GroupTexts(_)
GroupTexts(content) ==
    IF content = <<>> THEN 0
    ELSE (IF Head(content).tag = "Group"
          THEN Len(SelectSeq(Head(content).group.content,
                             LAMBDA e : e.tag = "Comment" /\ e.comment.kind = "Text"))
          ELSE 0)
         + GroupTexts(Tail(content))

\* C19: in a parsed document every top-level Comment stands before the first
\* Group, and the '#' lines the input has after its first group header are
\* Text comments among the entries of the groups, those before it the
\* top-level ones.
C19_CommentsBeforeGroups ==
    pc = "parsed" =>
        /\ \A i \in 1..Len(doc.content) : \A j \in i..Len(doc.content) :
              doc.content[i].tag = "Group" => doc.content[j].tag = "Group"
        /\ Len(TopLevelTexts(doc))
              = HashCount(Consumed(input), 1..(FirstBracket(Consumed(input)) - 1))
        /\ GroupTexts(doc.content)
              = HashCount(Consumed(input),
                          FirstBracket(Consumed(input))..Len(Consumed(input)))

\* C19: "# c", "[G]", "# c" parsed: one comment at the top, one in the group
C19_Witness ==
    /\ pc = "parsed"
    /\ input = <<HASH, SP, 99, LF, LBRACKET, 71, RBRACKET, LF, HASH, SP, 99, LF>>
    /\ Len(doc.content) = 2
    /\ doc.content[1] = TopComment(Text(<<99>>))
    /\ doc.content[2] = TopGroup(Group(<<71>>, <<EntryComment(Text(<<99>>))>>))

(***************************************************************************)
(* Locale::equals_options of one locale against one reference, under       *)
(* several significance masks.                                             *)
(***************************************************************************)

MaxAsks == 2

\* a locale and a reference to compare it with; nothing compared yet
InitMask ==
    /\ query \in [self : LocalePool, locale : LocalePool]
    /\ found = <<>>
    /\ pc = "start"
    /\ input = <<>>
    /\ doc = DesktopFile(<<>>)
    /\ parsed = NotRun
    /\ out = <<>>

\* self.equals_options(&options), the options on the reference with any mask
EqualsOptions ==
    /\ pc \in {"start", "compared"}
    /\ Len(found) < MaxAsks
    /\ \E country \in BOOLEAN, encoding \in BOOLEAN, modifier \in BOOLEAN :
         LET options == LocaleOptions(query.locale, country, encoding, modifier)
         IN  found' = Append(found, [options |-> options,
                                     result |-> equals_options(query.self, options)])
    /\ pc' = "compared"
    /\ UNCHANGED <<input, doc, parsed, out, query>>

NextMask == EqualsOptions

SpecMask == InitMask /\ [][NextMask]_vars

\* the fields options o marks significant
Significant(o) ==
    {f \in {"country", "encoding", "modifier"} :
        \/ f = "country" /\ o.country
        \/ f = "encoding" /\ o.encoding
        \/ f = "modifier" /\ o.modifier}

\* C21: a match under a mask is a match under every mask with a subset of
\* its significant fields; with no field significant the result is the
\* equality of the languages, with all three it is the equality of the two
\* locales field by field.
C21_MaskMonotonic ==
    \A i \in 1..Len(found) :
        /\ \A j \in 1..Len(found) :
              (found[i].result /\ Significant(found[j].options)
                                      \subseteq Significant(found[i].options))
              => found[j].result
        /\ Significant(found[i].options) = {}
              => found[i].result = (query.self.lang = query.locale.lang)
        /\ Significant(found[i].options) = {"country", "encoding", "modifier"}
              => found[i].result = (/\ query.self.lang = query.locale.lang
                                    /\ query.self.country = query.locale.country
                                    /\ query.self.encoding = query.locale.encoding
                                    /\ query.self.modifiers = query.locale.modifiers)

\* C21: a locale that differs from the reference on the modifier only,
\* matched with country and encoding significant and again with the country
\* alone
C21_Witness ==
    /\ pc = "compared"
    /\ Len(found) = 2
    /\ query.self.modifiers # query.locale.modifiers
    /\ IsSome(query.self.country)
    /\ Significant(found[1].options) = {"country", "encoding"}
    /\ Significant(found[2].options) = {"country"}
    /\ found[1].result /\ found[2].result

=============================================================================
